---- MODULE Spec2Model ----
(***************************************************************************)
(* A model of pinky (src/lib/pinky.py): the path mini-language pipeline    *)
(* (tokenize, split polycommands, absolutize, split subpaths, linearize,   *)
(* repair) and the affine transform parser.                                *)
(*                                                                         *)
(* Conventions.                                                            *)
(*  - Python floats are modelled by integers: every input of the model is  *)
(*    an exactly representable number and the code only adds, subtracts    *)
(*    and multiplies them.                                                 *)
(*  - A path string is modelled by the sequence of its maximal lexemes     *)
(*    (a command letter, a run of numeric characters, a run of separators, *)
(*    any other character): the three patterns of Path._scanner work on    *)
(*    exactly these runs.                                                  *)
(*  - A command tuple ('M', 1.0, 2.0) is the TLA+ tuple <<"M", 1, 2>>.     *)
(*  - A Python bool is an int (True == 1): bool(t) is modelled by 1 or 0.  *)
(*  - A call that raises is modelled by a result [err |-> kind], a call    *)
(*    that returns by [err |-> "none", val |-> value].                     *)
(***************************************************************************)
EXTENDS Integers, Sequences, FiniteSets, TLC

VARIABLES
    path_str,   \* the argument of Path.parse, as lexemes
    pc,         \* the position of the call under way
    commands,   \* the command tuples the current pass has produced
    todo,       \* the command tuples _to_absolute_commands has yet to read
    cx, cy,     \* _to_absolute_commands: the current point
    mx, my,     \* _to_absolute_commands: the start of the current subpath
    error,      \* the exception that escaped, "none" when none did
    subpaths,   \* Path.subpaths, each a sequence of commands
    shapes,     \* the result of Path.get_basic_shapes, repaired in place
    repaired,   \* the indexes of the shapes Polygon.repair has been called on
    transforms,          \* the transform list the string below was written from
    transform_list_str,  \* the argument of Matrix.parse, as lexemes
    fragments,  \* Matrix.parse: the pieces of the string yet to be read
    matrix,     \* Matrix.parse: the matrix so far, then the one returned
    point,      \* the argument of Matrix.transform_point
    image,      \* the result of Matrix.transform_point
    operands,   \* the matrices A, B, C and the point the calls below are given
    work,       \* the calls of Matrix.__mul__ and transform_point yet to make
    values,     \* the results of the calls made, by the name of the call
    box,        \* a BoundingBox, from its construction on
    added,      \* what add_point and add_shape have put into box
    elements,   \* an Element tree: the nodes, each with its parent's index
    outer,      \* the argument matrix of Element.get_bounding_box
    element_box,  \* the result of Element.get_bounding_box
    attributes, \* Element.attributes of the element load_shapes is given
    fill,       \* load_shapes: the fill it resolved
    stroke,     \* load_shapes: the stroke it resolved
    color_str,  \* the argument of Color.parse, as characters
    color,      \* the result of Color.parse
    heap,       \* the objects and lists a run has created, by reference
    call,       \* the call made last: its name, its receiver, its argument
    result,     \* what the call made last returned or raised
    heap_before,  \* the heap as it was when the call made last began
    derived     \* the calls that returned an object: <<receiver, result>>

path_vars ==
    <<path_str, commands, todo, cx, cy, mx, my, subpaths, shapes, repaired>>

matrix_vars ==
    <<transforms, transform_list_str, fragments, matrix, point, image>>

algebra_vars == <<operands, work, values>>

box_vars == <<box, added>>

element_vars == <<elements, outer, element_box>>

scene_vars == <<attributes, fill, stroke>>

color_vars == <<color_str, color>>

heap_vars == <<heap, call, result, heap_before, derived>>

vars ==
    <<pc, error, path_vars, matrix_vars, algebra_vars, box_vars,
      element_vars, scene_vars, color_vars, heap_vars>>

(* What an operation on paths, and one on transform lists, leaves alone.   *)
not_path_vars ==
    <<matrix_vars, algebra_vars, box_vars, element_vars, scene_vars,
      color_vars, heap_vars>>

not_matrix_vars ==
    <<path_vars, algebra_vars, box_vars, element_vars, scene_vars,
      color_vars, heap_vars>>

-----------------------------------------------------------------------------
(* Results of calls.                                                       *)

Return(v) == [err |-> "none", val |-> v]

Raise(kind) == [err |-> kind, val |-> <<>>]

(* Python's None, where a point is expected.                               *)
None == <<>>

Abs(n) == IF n < 0 THEN -n ELSE n

Bool(n) == IF n # 0 THEN 1 ELSE 0

(* The parts of the state a run does not use stay as they are here.        *)
PathIdle ==
    /\ path_str = <<>>
    /\ commands = <<>>
    /\ todo = <<>>
    /\ cx = 0 /\ cy = 0 /\ mx = 0 /\ my = 0
    /\ subpaths = <<>>
    /\ shapes = <<>>
    /\ repaired = {}

MatrixIdle ==
    /\ transforms = <<>>
    /\ transform_list_str = <<>>
    /\ fragments = <<>>
    /\ matrix = None
    /\ point = None
    /\ image = None

AlgebraIdle == operands = <<>> /\ work = <<>> /\ values = <<>>

BoxIdle == box = None /\ added = <<>>

ElementIdle == elements = <<>> /\ outer = None /\ element_box = None

SceneIdle == attributes = <<>> /\ fill = None /\ stroke = None

ColorIdle == color_str = <<>> /\ color = None

HeapIdle ==
    /\ heap = <<>> /\ call = None /\ result = None /\ heap_before = <<>>
    /\ derived = {}

-----------------------------------------------------------------------------
(* Lexemes of a path string.                                               *)

Letter(c) == [kind |-> "letter", ch |-> c, val |-> 0]

Number(n) == [kind |-> "number", ch |-> "", val |-> n]

(* A run of the characters -+0-9.Ee that float() rejects, such as "1e".    *)
Malformed == [kind |-> "malformed", ch |-> "1e", val |-> 0]

Separator == [kind |-> "separator", ch |-> ",", val |-> 0]

(* A character none of the scanner's patterns matches, such as "#".        *)
Other == [kind |-> "other", ch |-> "#", val |-> 0]

CommandLetters ==
    {"M", "m", "Z", "z", "L", "l", "H", "h", "V", "v",
     "C", "c", "S", "s", "Q", "q", "T", "t", "A", "a"}

_arg_counts ==
    [l \in CommandLetters |->
        CASE l \in {"M", "m", "L", "l", "T", "t"} -> 2
          [] l \in {"H", "h", "V", "v"} -> 1
          [] l \in {"Z", "z"} -> 0
          [] l \in {"C", "c"} -> 6
          [] l \in {"S", "s", "Q", "q"} -> 4
          [] l \in {"A", "a"} -> 7]

(* The keys of Path._command_classes: the letters a Command can carry.     *)
_command_classes == {"M", "Z", "L", "C", "S", "Q", "T", "A"}

-----------------------------------------------------------------------------
(* Path._scanner.scan: the tokens up to the first character no pattern     *)
(* matches, and the remainder from there. float(t) runs as each numeric    *)
(* run is matched, so a malformed run raises ValueError during the scan.   *)

RECURSIVE ScanFrom(_, _, _)
ScanFrom(s, i, tokens) ==
    IF i > Len(s)
    THEN [err |-> "none", tokens |-> tokens, remainder |-> <<>>]
    ELSE CASE s[i].kind = "letter" -> ScanFrom(s, i + 1, Append(tokens, s[i]))
           [] s[i].kind = "number" -> ScanFrom(s, i + 1, Append(tokens, s[i]))
           [] s[i].kind = "malformed" ->
                [err |-> "ValueError", tokens |-> tokens, remainder |-> <<>>]
           [] s[i].kind = "separator" -> ScanFrom(s, i + 1, tokens)
           [] OTHER ->
                [err |-> "none", tokens |-> tokens,
                 remainder |-> SubSeq(s, i, Len(s))]

Scan(s) == ScanFrom(s, 1, <<>>)

(* A coercion that counts the arguments from the command letter, without   *)
(* starting again at each group of seven.                                  *)
CoerceArcArgFirstGroup(command, token) ==
    IF command[1] \in {"A", "a"}
    THEN LET arg_index == Len(command) - 1
         IN  CASE arg_index \in {0, 1} -> Abs(token)
               [] arg_index \in {3, 4} -> Bool(token)
               [] OTHER -> token
    ELSE token

(* Path._parse_commands, the coercion of an elliptical arc's arguments.    *)
(* command is the list under construction, letter first.                   *)
CoerceArcArg(command, token) ==
    IF command[1] \in {"A", "a"}
    THEN LET arg_index == (Len(command) - 1) % 7
         IN  CASE arg_index \in {0, 1} -> Abs(token)
               [] arg_index \in {3, 4} -> Bool(token)
               [] OTHER -> token
    ELSE token

(* Path._parse_commands, the loop over the tokens.                         *)
RECURSIVE GroupTokens(_, _, _, _)
GroupTokens(tokens, i, command, yielded) ==
    IF i > Len(tokens)
    THEN Return(IF Len(command) > 0 THEN Append(yielded, command) ELSE yielded)
    ELSE LET token == tokens[i]
         IN  IF token.kind = "letter"
             THEN GroupTokens(tokens, i + 1, <<token.ch>>,
                      IF Len(command) > 0 THEN Append(yielded, command)
                                          ELSE yielded)
             ELSE IF Len(command) = 0
                  THEN Raise("ParseError")
                  ELSE GroupTokens(tokens, i + 1,
                           Append(command, CoerceArcArg(command, token.val)),
                           yielded)

_parse_commands(s) ==
    LET scanned == Scan(s)
    IN  IF scanned.err # "none" THEN Raise(scanned.err)
        ELSE IF Len(scanned.remainder) > 0 THEN Raise("ParseError")
        ELSE GroupTokens(scanned.tokens, 1, <<>>, <<>>)

-----------------------------------------------------------------------------
(* Path._split_polycommands.                                               *)

Min(a, b) == IF a < b THEN a ELSE b

(* A polycommand splitter that repeats the Moveto.                         *)
SplitNameRepeated(name, j) == name

(* The name of the j-th command (j = 0, 1, ...) split off a polycommand:   *)
(* name is rebound to L (l) once i > 1 and stays so.                       *)
SplitName(name, j) ==
    IF j > 0 /\ name = "M" THEN "L"
    ELSE IF j > 0 /\ name = "m" THEN "l"
    ELSE name

(* The commands one input command yields. xrange(1, len, 0) raises         *)
(* ValueError; the last slice may be short.                                *)
SplitCommand(command) ==
    LET name == command[1]
        arg_count == _arg_counts[name]
        n == Len(command)
    IN  IF n - 1 > arg_count
        THEN IF arg_count = 0
             THEN Raise("ValueError")
             ELSE LET k == (n - 1 + arg_count - 1) \div arg_count
                  IN  Return([j \in 1..k |->
                          <<SplitName(name, j - 1)>> \o
                          SubSeq(command, 2 + (j - 1) * arg_count,
                                 Min(1 + j * arg_count, n))])
        ELSE Return(<<command>>)

RECURSIVE SplitFrom(_, _, _)
SplitFrom(cmds, i, yielded) ==
    IF i > Len(cmds) THEN Return(yielded)
    ELSE LET r == SplitCommand(cmds[i])
         IN  IF r.err # "none" THEN Raise(r.err)
             ELSE SplitFrom(cmds, i + 1, yielded \o r.val)

_split_polycommands(cmds) == SplitFrom(cmds, 1, <<>>)

-----------------------------------------------------------------------------
(* Path._to_absolute_commands.                                             *)

(* An absolutizer that forgets the current point.                          *)
RelativeDropped(offset, current) == offset

(* x += cx: a relative coordinate made absolute.                           *)
Relative(offset, current) == offset + current

(* A Closepath that leaves the current point where it is.                  *)
ClosepathPointStays(pcx, pcy, pmx, pmy) == <<pcx, pcy>>

(* x, y = mx, my: the point a Closepath returns to.                        *)
ClosepathPoint(pcx, pcy, pmx, pmy) == <<pmx, pmy>>

(* An absolutizer that keeps the relative letter of a lineto.              *)
RewrittenNameKeepsLineto(name) ==
    CASE name \in {"M", "m"} -> "M"
      [] name \in {"Z", "z"} -> "Z"
      [] name = "l" -> "l"
      [] name \in {"L", "H", "h", "V", "v"} -> "L"
      [] name \in {"C", "c"} -> "C"
      [] name \in {"S", "s"} -> "S"
      [] name \in {"Q", "q"} -> "Q"
      [] name \in {"T", "t"} -> "T"
      [] name \in {"A", "a"} -> "A"

(* The letter of the tuple each branch yields: command = 'L', x, y and so  *)
(* on; an upper case command other than H and V is yielded as it came.     *)
RewrittenName(name) ==
    CASE name \in {"M", "m"} -> "M"
      [] name \in {"Z", "z"} -> "Z"
      [] name \in {"L", "l", "H", "h", "V", "v"} -> "L"
      [] name \in {"C", "c"} -> "C"
      [] name \in {"S", "s"} -> "S"
      [] name \in {"Q", "q"} -> "Q"
      [] name \in {"T", "t"} -> "T"
      [] name \in {"A", "a"} -> "A"

(* One turn of the loop: the command read with the current point           *)
(* (pcx, pcy) and the subpath start (pmx, pmy); the command yielded and    *)
(* the four coordinates after it. A tuple unpacking of the wrong length    *)
(* raises ValueError.                                                      *)
AbsCommand(command, pcx, pcy, pmx, pmy) ==
    LET name == command[1]
        args == Tail(command)
        out  == RewrittenName(name)
        Yield(cmd, x, y, nmx, nmy) ==
            [err |-> "none", command |-> cmd,
             cx |-> x, cy |-> y, mx |-> nmx, my |-> nmy]
        Fail ==
            [err |-> "ValueError", command |-> command,
             cx |-> pcx, cy |-> pcy, mx |-> pmx, my |-> pmy]
        RX(i) == Relative(args[i], pcx)
        RY(i) == Relative(args[i], pcy)
        close == ClosepathPoint(pcx, pcy, pmx, pmy)
    IN  CASE name = "M" ->
                IF Len(args) # 2 THEN Fail
                ELSE Yield(command, args[1], args[2], args[1], args[2])
          [] name = "m" ->
                IF Len(args) # 2 THEN Fail
                ELSE Yield(<<out, RX(1), RY(2)>>, RX(1), RY(2), RX(1), RY(2))
          [] name = "Z" -> Yield(command, close[1], close[2], pmx, pmy)
          [] name = "z" -> Yield(<<out>>, close[1], close[2], pmx, pmy)
          [] name = "L" ->
                IF Len(args) # 2 THEN Fail
                ELSE Yield(command, args[1], args[2], pmx, pmy)
          [] name = "l" ->
                IF Len(args) # 2 THEN Fail
                ELSE Yield(<<out, RX(1), RY(2)>>, RX(1), RY(2), pmx, pmy)
          [] name = "H" ->
                IF Len(args) # 1 THEN Fail
                ELSE Yield(<<out, args[1], pcy>>, args[1], pcy, pmx, pmy)
          [] name = "h" ->
                IF Len(args) # 1 THEN Fail
                ELSE Yield(<<out, RX(1), pcy>>, RX(1), pcy, pmx, pmy)
          [] name = "V" ->
                IF Len(args) # 1 THEN Fail
                ELSE Yield(<<out, pcx, args[1]>>, pcx, args[1], pmx, pmy)
          [] name = "v" ->
                IF Len(args) # 1 THEN Fail
                ELSE Yield(<<out, pcx, RY(1)>>, pcx, RY(1), pmx, pmy)
          [] name = "C" ->
                IF Len(args) # 6 THEN Fail
                ELSE Yield(command, args[5], args[6], pmx, pmy)
          [] name = "c" ->
                IF Len(args) # 6 THEN Fail
                ELSE Yield(<<out, RX(1), RY(2), RX(3), RY(4), RX(5), RY(6)>>,
                           RX(5), RY(6), pmx, pmy)
          [] name = "S" ->
                IF Len(args) # 4 THEN Fail
                ELSE Yield(command, args[3], args[4], pmx, pmy)
          [] name = "s" ->
                IF Len(args) # 4 THEN Fail
                ELSE Yield(<<out, RX(1), RY(2), RX(3), RY(4)>>,
                           RX(3), RY(4), pmx, pmy)
          [] name = "Q" ->
                IF Len(args) # 4 THEN Fail
                ELSE Yield(command, args[3], args[4], pmx, pmy)
          [] name = "q" ->
                IF Len(args) # 4 THEN Fail
                ELSE Yield(<<out, RX(1), RY(2), RX(3), RY(4)>>,
                           RX(3), RY(4), pmx, pmy)
          [] name = "T" ->
                IF Len(args) # 2 THEN Fail
                ELSE Yield(command, args[1], args[2], pmx, pmy)
          [] name = "t" ->
                IF Len(args) # 2 THEN Fail
                ELSE Yield(<<out, RX(1), RY(2)>>, RX(1), RY(2), pmx, pmy)
          [] name = "A" ->
                IF Len(args) # 7 THEN Fail
                ELSE Yield(command, args[6], args[7], pmx, pmy)
          [] name = "a" ->
                IF Len(args) # 7 THEN Fail
                ELSE Yield(<<out, args[1], args[2], args[3], args[4], args[5],
                             RX(6), RY(7)>>,
                           RX(6), RY(7), pmx, pmy)

(* The whole generator run over a command sequence, from (0,0), (0,0).     *)
RECURSIVE AbsFrom(_, _, _, _, _, _, _)
AbsFrom(cmds, i, pcx, pcy, pmx, pmy, yielded) ==
    IF i > Len(cmds) THEN Return(yielded)
    ELSE LET r == AbsCommand(cmds[i], pcx, pcy, pmx, pmy)
         IN  IF r.err # "none" THEN Raise(r.err)
             ELSE AbsFrom(cmds, i + 1, r.cx, r.cy, r.mx, r.my,
                          Append(yielded, r.command))

_to_absolute_commands(cmds) == AbsFrom(cmds, 1, 0, 0, 0, 0, <<>>)

-----------------------------------------------------------------------------
(* Commands, subpaths and basic shapes. A Command object is modelled by    *)
(* the tuple it was built from: its class is its letter, its slots are     *)
(* the arguments.                                                          *)

IsMoveto(command) == command[1] = "M"

(* Command.endpoint: (self.x, self.y), the last two slots of every class   *)
(* that has slots; None for Closepath.                                     *)
endpoint(command) ==
    IF Len(command) > 1
    THEN <<command[Len(command) - 1], command[Len(command)]>>
    ELSE None

(* Path._split_subpaths.                                                   *)
RECURSIVE SubpathsFrom(_, _, _, _)
SubpathsFrom(cmds, i, subpath, yielded) ==
    IF i > Len(cmds)
    THEN IF Len(subpath) > 0 THEN Append(yielded, subpath) ELSE yielded
    ELSE IF Len(subpath) > 0 /\ IsMoveto(cmds[i])
         THEN SubpathsFrom(cmds, i + 1, <<cmds[i]>>, Append(yielded, subpath))
         ELSE SubpathsFrom(cmds, i + 1, Append(subpath, cmds[i]), yielded)

_split_subpaths(cmds) == SubpathsFrom(cmds, 1, <<>>, <<>>)

(* Subpath.closed.                                                         *)
closed(subpath) ==
    Len(subpath) > 0 /\ endpoint(subpath[Len(subpath)]) = None

Shape(type, points) == [type |-> type, points |-> points]

(* Subpath.get_basic_shape. A Line(x1, y1, x2, y2) is modelled by its two  *)
(* points; unpacking the None endpoint of a Closepath raises TypeError.    *)
get_basic_shape(subpath) ==
    IF closed(subpath)
    THEN Return(Shape("Polygon",
             [i \in 1..(Len(subpath) - 1) |-> endpoint(subpath[i])]))
    ELSE IF Len(subpath) = 2
         THEN IF endpoint(subpath[1]) = None \/ endpoint(subpath[2]) = None
              THEN Raise("TypeError")
              ELSE Return(Shape("Line",
                       <<endpoint(subpath[1]), endpoint(subpath[2])>>))
         ELSE Return(Shape("Polyline",
                  [i \in 1..Len(subpath) |-> endpoint(subpath[i])]))

(* Path.get_basic_shapes: the list of the subpaths' shapes; an exception   *)
(* of one call escapes.                                                    *)
get_basic_shapes(sps) ==
    IF \E i \in 1..Len(sps) : get_basic_shape(sps[i]).err # "none"
    THEN Raise("TypeError")
    ELSE Return([i \in 1..Len(sps) |-> get_basic_shape(sps[i]).val])

-----------------------------------------------------------------------------
(* Polygon.area and Polygon.repair.                                        *)

RECURSIVE ShoelaceFrom(_, _)
ShoelaceFrom(points, i) ==
    IF i > Len(points) THEN 0
    ELSE LET p1 == points[i]
             p2 == points[(i % Len(points)) + 1]
         IN  (p1[1] * p2[2] - p2[1] * p1[2]) + ShoelaceFrom(points, i + 1)

(* area / 2.0 is exact on the even sums of the model's inputs; \div keeps  *)
(* the sign of every sum. Unpacking a None vertex raises TypeError.        *)
Polygon_area(points) ==
    IF \E i \in 1..Len(points) : points[i] = None
    THEN Raise("TypeError")
    ELSE Return(ShoelaceFrom(points, 1) \div 2)

Reverse(s) == [i \in 1..Len(s) |-> s[Len(s) + 1 - i]]

(* The default of repair's epsilon parameter.                              *)
DefaultEpsilon == 0

eq(p1, p2, epsilon) ==
    (p2[1] - p1[1]) * (p2[1] - p1[1]) + (p2[2] - p1[2]) * (p2[2] - p1[2])
        <= epsilon * epsilon

(* A repair that reverses the polygons of positive area.                   *)
NeedsReverseWrongSign(area) == area > 0

(* if self.area < 0.0                                                      *)
NeedsReverse(area) == area < 0

(* Polygon.repair: the points as the call leaves them, and the exception   *)
(* that escapes it, if any (the pop comes before the area is read).        *)
Polygon_repair(points, epsilon) ==
    LET n == Len(points)
    IN  IF n >= 2 /\ (points[1] = None \/ points[n] = None)
        THEN [err |-> "TypeError", points |-> points]
        ELSE LET popped == IF n >= 2 /\ eq(points[1], points[n], epsilon)
                           THEN SubSeq(points, 1, n - 1)
                           ELSE points
                 area == Polygon_area(popped)
             IN  IF area.err # "none"
                 THEN [err |-> area.err, points |-> popped]
                 ELSE [err |-> "none",
                       points |-> IF NeedsReverse(area.val)
                                  THEN Reverse(popped) ELSE popped]

-----------------------------------------------------------------------------
(* The path strings the model is run on: up to n items of a set, each item *)
(* the lexemes of one command (or a stray lexeme), concatenated.           *)

RECURSIVE Concat(_)
Concat(ss) == IF Len(ss) = 0 THEN <<>> ELSE Head(ss) \o Concat(Tail(ss))

PathsOf(items, n) ==
    {Concat(ss) : ss \in UNION {[1..k -> items] : k \in 0..n}}

(* The k-th argument written after letter l: small numbers of both signs,  *)
(* zero among them, different from one position to the next.               *)
ArgVal(l, k) == ((k * 2 + _arg_counts[l]) % 5) - 2

CommandText(l, n) == <<Letter(l)>> \o [k \in 1..n |-> Number(ArgVal(l, k))]

(* Every letter with one group of arguments; polycommands of two and of   *)
(* three groups; some commands with one argument too many; the stray       *)
(* lexemes.                                                                *)
PathItems ==
    {CommandText(l, _arg_counts[l]) : l \in CommandLetters}
    \cup {CommandText(l, 2 * _arg_counts[l]) :
             l \in {"M", "m", "l", "h", "V", "C", "s", "Q", "t", "a", "A"}}
    \cup {CommandText("M", 6), CommandText("h", 3)}
    \cup {CommandText(l, _arg_counts[l] + 1) : l \in {"Z", "L", "c"}}
    \cup {<<Number(1)>>, <<Malformed>>, <<Separator>>, <<Other>>}

MaxPathCommands == 2

PathInputs == PathsOf(PathItems, MaxPathCommands)

-----------------------------------------------------------------------------
(* The calls: Path.parse, pass by pass; Path.get_basic_shapes;             *)
(* Polygon.repair on a shape of the result. An exception ends the run: pc  *)
(* stays at the place that raised it and error names it.                   *)

InitWith(inputs) ==
    /\ path_str \in inputs
    /\ pc = "tokenize"
    /\ commands = <<>>
    /\ todo = <<>>
    /\ cx = 0 /\ cy = 0 /\ mx = 0 /\ my = 0
    /\ error = "none"
    /\ subpaths = <<>>
    /\ shapes = <<>>
    /\ repaired = {}
    /\ MatrixIdle /\ AlgebraIdle /\ BoxIdle /\ ElementIdle
    /\ SceneIdle /\ ColorIdle /\ HeapIdle

(* Path._parse_commands runs to its end.                                   *)
Tokenize ==
    /\ pc = "tokenize" /\ error = "none"
    /\ LET r == _parse_commands(path_str)
       IN  IF r.err = "none"
           THEN commands' = r.val /\ pc' = "split" /\ error' = error
           ELSE commands' = commands /\ pc' = pc /\ error' = r.err
    /\ UNCHANGED not_path_vars
    /\ UNCHANGED <<path_str, todo, cx, cy, mx, my, subpaths, shapes, repaired>>

(* Path._split_polycommands runs to its end; its output is the input of    *)
(* _to_absolute_commands.                                                  *)
SplitPolycommands ==
    /\ pc = "split" /\ error = "none"
    /\ LET r == _split_polycommands(commands)
       IN  IF r.err = "none"
           THEN todo' = r.val /\ commands' = <<>> /\ pc' = "absolutize"
                /\ error' = error
           ELSE todo' = todo /\ commands' = commands /\ pc' = pc
                /\ error' = r.err
    /\ UNCHANGED not_path_vars
    /\ UNCHANGED <<path_str, cx, cy, mx, my, subpaths, shapes, repaired>>

(* One turn of the loop of _to_absolute_commands.                          *)
Absolutize ==
    /\ pc = "absolutize" /\ error = "none"
    /\ Len(todo) > 0
    /\ LET r == AbsCommand(Head(todo), cx, cy, mx, my)
       IN  IF r.err = "none"
           THEN /\ commands' = Append(commands, r.command)
                /\ todo' = Tail(todo)
                /\ cx' = r.cx /\ cy' = r.cy /\ mx' = r.mx /\ my' = r.my
                /\ error' = error
           ELSE /\ error' = r.err
                /\ UNCHANGED <<commands, todo, cx, cy, mx, my>>
    /\ UNCHANGED not_path_vars
    /\ UNCHANGED <<path_str, pc, subpaths, shapes, repaired>>

(* The end of Path.parse: a Command per tuple, its class looked up by the  *)
(* letter in _command_classes, and the subpaths.                           *)
SplitSubpaths ==
    /\ pc = "absolutize" /\ error = "none"
    /\ Len(todo) = 0
    /\ IF \E i \in 1..Len(commands) : commands[i][1] \notin _command_classes
       THEN subpaths' = subpaths /\ pc' = pc /\ error' = "KeyError"
       ELSE subpaths' = _split_subpaths(commands) /\ pc' = "parsed"
            /\ error' = error
    /\ UNCHANGED not_path_vars
    /\ UNCHANGED <<path_str, commands, todo, cx, cy, mx, my, shapes, repaired>>

GetBasicShapes ==
    /\ pc = "parsed" /\ error = "none"
    /\ LET r == get_basic_shapes(subpaths)
       IN  IF r.err = "none"
           THEN shapes' = r.val /\ pc' = "shapes" /\ error' = error
           ELSE shapes' = shapes /\ pc' = pc /\ error' = r.err
    /\ UNCHANGED not_path_vars
    /\ UNCHANGED <<path_str, commands, todo, cx, cy, mx, my, subpaths,
                   repaired>>

(* polygon.repair() on the i-th shape, once.                               *)
Repair(i) ==
    /\ pc = "shapes" /\ error = "none"
    /\ shapes[i].type = "Polygon"
    /\ i \notin repaired
    /\ LET r == Polygon_repair(shapes[i].points, DefaultEpsilon)
       IN  /\ shapes' = [shapes EXCEPT ![i].points = r.points]
           /\ error' = r.err
    /\ repaired' = repaired \cup {i}
    /\ UNCHANGED not_path_vars
    /\ UNCHANGED <<path_str, pc, commands, todo, cx, cy, mx, my, subpaths>>

Next ==
    \/ Tokenize
    \/ SplitPolycommands
    \/ Absolutize
    \/ SplitSubpaths
    \/ GetBasicShapes
    \/ \E i \in 1..Len(shapes) : Repair(i)

(* Paths of every command letter, polycommands and malformed input.        *)
InitPath == InitWith(PathInputs)

SpecPath == InitPath /\ [][Next]_vars

(* Paths of movetos, linetos, closepaths and relative commands, long       *)
(* enough to draw away from the start of a subpath, close it and go on.    *)
AbsItems ==
    {<<Letter("M"), Number(3), Number(4)>>,
     <<Letter("m"), Number(1), Number(2)>>,
     <<Letter("L"), Number(5), Number(6)>>,
     <<Letter("l"), Number(1), Number(1)>>,
     <<Letter("h"), Number(2)>>,
     <<Letter("c"), Number(1), Number(2), Number(3), Number(4), Number(5),
       Number(7)>>,
     <<Letter("Z")>>,
     <<Letter("z")>>}

MaxAbsCommands == 4

InitAbs == InitWith(PathsOf(AbsItems, MaxAbsCommands))

SpecAbs == InitAbs /\ [][Next]_vars

(* Paths over the corners of a square and one curve, long enough to draw   *)
(* a triangle back to its start and close it.                              *)
ShapeItems ==
    {<<Letter("M"), Number(0), Number(0)>>,
     <<Letter("L"), Number(10), Number(0)>>,
     <<Letter("L"), Number(10), Number(10)>>,
     <<Letter("L"), Number(0), Number(0)>>,
     <<Letter("C"), Number(2), Number(4), Number(6), Number(8), Number(0),
       Number(10)>>,
     <<Letter("Z")>>}

MaxShapeCommands == 5

InitShape == InitWith(PathsOf(ShapeItems, MaxShapeCommands))

SpecShape == InitShape /\ [][Next]_vars

-----------------------------------------------------------------------------
(* Matrix: the six components (a, b, c, d, e, f) of an affine map, as a    *)
(* tuple. A transform list string is modelled by the sequence of its       *)
(* lexemes: an opening or closing parenthesis, a comma, a run of white     *)
(* space, and a maximal run of any other characters, which is a number     *)
(* when float() accepts it and a word otherwise.                           *)

Word(w) == [kind |-> "word", ch |-> w, val |-> 0]

OpenParen == [kind |-> "(", ch |-> "(", val |-> 0]

CloseParen == [kind |-> ")", ch |-> ")", val |-> 0]

Comma == [kind |-> ",", ch |-> ",", val |-> 0]

Space == [kind |-> " ", ch |-> " ", val |-> 0]

(* Matrix.__init__ with its default arguments: the first Len(args)         *)
(* components are given, the others default to those of the identity.      *)
Matrix_init(args) ==
    [i \in 1..6 |-> IF i <= Len(args) THEN args[i] ELSE <<1, 0, 0, 1, 0, 0>>[i]]

Identity == Matrix_init(<<>>)

(* Matrix.__mul__.                                                         *)
Mul(self, other) ==
    LET a1 == self[1]   b1 == self[2]   c1 == self[3]
        d1 == self[4]   e1 == self[5]   f1 == self[6]
        a2 == other[1]  b2 == other[2]  c2 == other[3]
        d2 == other[4]  e2 == other[5]  f2 == other[6]
        a3 == a1 * a2 + c1 * b2
        b3 == b1 * a2 + d1 * b2
        c3 == a1 * c2 + c1 * d2
        d3 == b1 * c2 + d1 * d2
        e3 == a1 * e2 + c1 * f2 + e1
        f3 == b1 * e2 + d1 * f2 + f1
    IN  Matrix_init(<<a3, b3, c3, d3, e3, f3>>)

(* Matrix.transform_point reading b where it reads c and c where it reads  *)
(* b.                                                                      *)
transform_point_transposed(self, x, y) ==
    <<self[1] * x + self[2] * y + self[5], self[3] * x + self[4] * y + self[6]>>

(* Matrix.transform_point.                                                 *)
transform_point(self, x, y) ==
    LET a == self[1]  b == self[2]  c == self[3]
        d == self[4]  e == self[5]  f == self[6]
    IN  <<a * x + c * y + e, b * x + d * y + f>>

(* math.cos, math.sin and math.tan of an angle in degrees, at the angles   *)
(* where the value is an integer. The model takes the exact value; the     *)
(* floats of the code differ from it by a rounding error (math.cos of      *)
(* pi / 2 is 6.1e-17).                                                     *)
CosDegrees(angle) ==
    CASE angle % 360 = 0   -> 1
      [] angle % 360 = 90  -> 0
      [] angle % 360 = 180 -> -1
      [] angle % 360 = 270 -> 0

SinDegrees(angle) ==
    CASE angle % 360 = 0   -> 0
      [] angle % 360 = 90  -> 1
      [] angle % 360 = 180 -> 0
      [] angle % 360 = 270 -> -1

TanDegrees(angle) ==
    CASE angle % 180 = 0   -> 0
      [] angle % 180 = 45  -> 1
      [] angle % 180 = 135 -> -1

(* The constructors take args, the positional arguments of the call: an    *)
(* argument the caller leaves out takes its default.                       *)

(* ty defaults to 0.0.                                                     *)
create_translate(args) ==
    LET tx == args[1]
        ty == IF Len(args) < 2 THEN 0 ELSE args[2]
    IN  Matrix_init(<<1, 0, 0, 1, tx, ty>>)

(* sy defaults to None, and is then sx.                                    *)
create_scale(args) ==
    LET sx == args[1]
        sy == IF Len(args) < 2 THEN args[1] ELSE args[2]
    IN  Matrix_init(<<sx, 0, 0, sy, 0, 0>>)

(* cx and cy default to None; the rotation is about (cx, cy) when neither  *)
(* is None and about the origin otherwise.                                 *)
create_rotate(args) ==
    LET angle == args[1]
        cos_angle == CosDegrees(angle)
        sin_angle == SinDegrees(angle)
        rotation == Matrix_init(<<cos_angle, sin_angle, -sin_angle, cos_angle,
                                  0, 0>>)
    IN  IF Len(args) >= 3
        THEN Mul(Mul(create_translate(<<args[2], args[3]>>), rotation),
                 create_translate(<<-args[2], -args[3]>>))
        ELSE rotation

create_skew_x(args) == Matrix_init(<<1, 0, TanDegrees(args[1]), 1, 0, 0>>)

create_skew_y(args) == Matrix_init(<<1, TanDegrees(args[1]), 0, 1, 0, 0>>)

(* The numbers of positional arguments each call of Matrix.parse accepts;  *)
(* Python raises TypeError on any other number.                            *)
AcceptedArgCounts ==
    [matrix |-> 0..6, translate |-> 1..2, scale |-> 1..2, rotate |-> 1..3,
     skewX |-> 1..1, skewY |-> 1..1]

TransformNames == DOMAIN AcceptedArgCounts

(* The if/elif chain of Matrix.parse: the matrix the transform name and    *)
(* the arguments construct.                                                *)
Construct(name, args) ==
    IF name \notin TransformNames THEN Raise("ParseError")
    ELSE IF Len(args) \notin AcceptedArgCounts[name] THEN Raise("TypeError")
    ELSE Return(CASE name = "matrix"    -> Matrix_init(args)
                  [] name = "translate" -> create_translate(args)
                  [] name = "scale"     -> create_scale(args)
                  [] name = "rotate"    -> create_rotate(args)
                  [] name = "skewX"     -> create_skew_x(args)
                  [] name = "skewY"     -> create_skew_y(args))

-----------------------------------------------------------------------------
(* The string operations of Matrix.parse, on lexemes.                      *)

(* str.replace(',', ' ')                                                   *)
ReplaceCommas(s) ==
    [i \in 1..Len(s) |-> IF s[i].kind = "," THEN Space ELSE s[i]]

(* str.split(sep) for a one-character separator: the pieces between its    *)
(* occurrences, one more than there are occurrences.                       *)
RECURSIVE SplitOn(_, _)
SplitOn(s, sep) ==
    IF \A i \in 1..Len(s) : s[i].kind # sep THEN <<s>>
    ELSE LET i == CHOOSE j \in 1..Len(s) :
                      /\ s[j].kind = sep
                      /\ \A k \in 1..(j - 1) : s[k].kind # sep
         IN  <<SubSeq(s, 1, i - 1)>> \o SplitOn(SubSeq(s, i + 1, Len(s)), sep)

(* str.rstrip() and str.strip()                                            *)
RECURSIVE rstrip(_)
rstrip(s) ==
    IF Len(s) > 0 /\ s[Len(s)].kind = " "
    THEN rstrip(SubSeq(s, 1, Len(s) - 1))
    ELSE s

RECURSIVE strip(_)
strip(s) ==
    IF Len(s) > 0 /\ s[1].kind = " " THEN strip(Tail(s)) ELSE rstrip(s)

(* str.split(): the runs between white space.                              *)
IsRun(lexeme) == lexeme.kind # " "

split(s) == SelectSeq(s, IsRun)

(* The name a piece of the string spells: the text of its only lexeme, and *)
(* the text of no transform when it is empty or has several lexemes.       *)
NameOf(s) == IF Len(s) = 1 /\ s[1].kind = "word" THEN s[1].ch ELSE ""

(* matrix *= other with the operands exchanged.                            *)
InPlaceMulExchanged(self, other) == Mul(other, self)

(* matrix *= other                                                         *)
InPlaceMul(self, other) == Mul(self, other)

(* The body of the loop of Matrix.parse on one piece of the string: the    *)
(* matrix after it.                                                        *)
ParseTransform(self, transform_str) ==
    LET parts == SplitOn(strip(transform_str), "(")
        name == NameOf(rstrip(parts[1]))
        args == split(parts[2])
    IN  IF Len(parts) # 2 THEN Raise("ValueError")
        ELSE IF \E i \in 1..Len(args) : args[i].kind # "number"
        THEN Raise("ValueError")
        ELSE LET r == Construct(name, [i \in 1..Len(args) |-> args[i].val])
             IN  IF r.err # "none" THEN r
                 ELSE Return(InPlaceMul(self, r.val))

-----------------------------------------------------------------------------
(* Transform lists. A transform is written name(arg,arg,...) and the       *)
(* transforms of a list are separated by one space, as in                  *)
(* "translate(10,5) scale(2)".                                             *)

Transform(name, args) == [name |-> name, args |-> args]

RECURSIVE ArgsText(_)
ArgsText(args) ==
    IF Len(args) = 0 THEN <<>>
    ELSE IF Len(args) = 1 THEN <<Number(args[1])>>
    ELSE <<Number(args[1]), Comma>> \o ArgsText(Tail(args))

TransformText(t) ==
    <<Word(t.name), OpenParen>> \o ArgsText(t.args) \o <<CloseParen>>

RECURSIVE TransformListText(_)
TransformListText(ts) ==
    IF Len(ts) = 0 THEN <<>>
    ELSE IF Len(ts) = 1 THEN TransformText(ts[1])
    ELSE TransformText(ts[1]) \o <<Space>> \o TransformListText(Tail(ts))

(* Every transform name, with each number of arguments the SVG grammar     *)
(* gives it, at angles whose sine, cosine and tangent are integers; a name *)
(* that is no transform, and a skew with an argument too many.             *)
TransformItems ==
    {Transform("translate", <<10, 5>>),
     Transform("translate", <<3>>),
     Transform("scale", <<2>>),
     Transform("scale", <<2, 3>>),
     Transform("rotate", <<90>>),
     Transform("rotate", <<90, 1, 2>>),
     Transform("skewX", <<45>>),
     Transform("skewY", <<45>>),
     Transform("matrix", <<1, 2, 3, 4, 5, 6>>),
     Transform("foo", <<1>>),
     Transform("skewX", <<45, 1>>)}

MaxTransforms == 2

TransformLists == UNION {[1..k -> TransformItems] : k \in 0..MaxTransforms}

Points == {<<0, 0>>, <<1, 1>>, <<2, -3>>}

(* Matrix.parse, one turn of its loop at a time, and then                  *)
(* Matrix.transform_point on the matrix it returned.                       *)

InitMatrix ==
    /\ transforms \in TransformLists
    /\ transform_list_str = TransformListText(transforms)
    /\ pc = "matrix_parse"
    /\ error = "none"
    /\ fragments = <<>>
    /\ matrix = None
    /\ point = None
    /\ image = None
    /\ PathIdle /\ AlgebraIdle /\ BoxIdle /\ ElementIdle
    /\ SceneIdle /\ ColorIdle /\ HeapIdle

(* matrix = Matrix() and the pieces the for statement is to go through:    *)
(* those that end with a closing parenthesis.                              *)
SplitTransforms ==
    /\ pc = "matrix_parse" /\ error = "none"
    /\ matrix' = Identity
    /\ fragments' =
           LET pieces == SplitOn(ReplaceCommas(transform_list_str), ")")
           IN  SubSeq(pieces, 1, Len(pieces) - 1)
    /\ pc' = "transform"
    /\ UNCHANGED <<error, transforms, transform_list_str, point, image>>
    /\ UNCHANGED not_matrix_vars

(* One turn of the loop.                                                   *)
ParseTransformStep ==
    /\ pc = "transform" /\ error = "none"
    /\ Len(fragments) > 0
    /\ LET r == ParseTransform(matrix, Head(fragments))
       IN  IF r.err = "none"
           THEN matrix' = r.val /\ fragments' = Tail(fragments)
                /\ error' = error
           ELSE error' = r.err /\ UNCHANGED <<matrix, fragments>>
    /\ UNCHANGED <<pc, transforms, transform_list_str, point, image>>
    /\ UNCHANGED not_matrix_vars

(* return matrix                                                           *)
ReturnMatrix ==
    /\ pc = "transform" /\ error = "none"
    /\ Len(fragments) = 0
    /\ pc' = "returned"
    /\ UNCHANGED <<error, matrix_vars, not_matrix_vars>>

TransformPoint ==
    /\ pc = "returned" /\ error = "none"
    /\ \E p \in Points :
          /\ point' = p
          /\ image' = transform_point(matrix, p[1], p[2])
    /\ pc' = "transformed"
    /\ UNCHANGED <<error, transforms, transform_list_str, fragments, matrix>>
    /\ UNCHANGED not_matrix_vars

NextMatrix ==
    \/ SplitTransforms
    \/ ParseTransformStep
    \/ ReturnMatrix
    \/ TransformPoint

SpecMatrix == InitMatrix /\ [][NextMatrix]_vars

-----------------------------------------------------------------------------
(* What the properties below speak of.                                     *)

(* The commands _to_absolute_commands is given: the polycommand-split      *)
(* input, of which todo is what is left to read.                           *)
SplitInput == _split_polycommands(_parse_commands(path_str).val).val

(* Path.parse has returned a Path.                                         *)
Accepted == pc \in {"parsed", "shapes"}

(* _to_absolute_commands has yielded its last command.                     *)
AbsolutizeDone ==
    \/ pc = "absolutize" /\ Len(todo) = 0 /\ error = "none"
    \/ Accepted

Last(s) == s[Len(s)]

RECURSIVE LastMovetoPoint(_, _)
(* The endpoint of the latest Moveto among the first n commands of cmds,   *)
(* (0,0) when there is none.                                               *)
LastMovetoPoint(cmds, n) ==
    IF n = 0 THEN <<0, 0>>
    ELSE IF cmds[n][1] = "M" THEN <<cmds[n][2], cmds[n][3]>>
    ELSE LastMovetoPoint(cmds, n - 1)

(* The current point after the first n commands of an absolute sequence,   *)
(* by the rules of SVG path data.                                          *)
PointAfter(cmds, n) ==
    IF n = 0 THEN <<0, 0>>
    ELSE IF cmds[n][1] = "Z" THEN LastMovetoPoint(cmds, n)
    ELSE <<cmds[n][Len(cmds[n]) - 1], cmds[n][Len(cmds[n])]>>

IsRelative(command) ==
    command[1] \in {"m", "l", "h", "v", "c", "s", "q", "t", "a"}

(* The endpoint a relative command reaches from the point p.               *)
RelativeTarget(command, p) ==
    CASE command[1] = "h" -> <<p[1] + command[2], p[2]>>
      [] command[1] = "v" -> <<p[1], p[2] + command[2]>>
      [] OTHER -> <<p[1] + command[Len(command) - 1],
                    p[2] + command[Len(command)]>>

(* Path.commands: the commands of the subpaths, chained.                   *)
PathCommands == Concat(subpaths)

Upper(l) ==
    CASE l \in {"M", "m"} -> "M" [] l \in {"Z", "z"} -> "Z"
      [] l \in {"L", "l"} -> "L" [] l \in {"H", "h"} -> "H"
      [] l \in {"V", "v"} -> "V" [] l \in {"C", "c"} -> "C"
      [] l \in {"S", "s"} -> "S" [] l \in {"Q", "q"} -> "Q"
      [] l \in {"T", "t"} -> "T" [] l \in {"A", "a"} -> "A"

(* out is the canonical absolute form of the command read at the current   *)
(* point p.                                                                *)
CanonicalOf(read, out, p) ==
    CASE read[1] \in {"M", "Z", "L", "C", "S", "Q", "T", "A"} -> out = read
      [] read[1] = "z" -> out = <<"Z">>
      [] read[1] = "H" -> out = <<"L", read[2], p[2]>>
      [] read[1] = "h" -> out = <<"L", read[2] + p[1], p[2]>>
      [] read[1] = "V" -> out = <<"L", p[1], read[2]>>
      [] read[1] = "v" -> out = <<"L", p[1], read[2] + p[2]>>
      [] read[1] = "a" ->
            out = <<"A", read[2], read[3], read[4], read[5], read[6],
                    read[7] + p[1], read[8] + p[2]>>
      [] OTHER ->
            out = <<Upper(read[1])>> \o
                  [k \in 1..(Len(read) - 1) |->
                      read[k + 1] + (IF k % 2 = 1 THEN p[1] ELSE p[2])]

-----------------------------------------------------------------------------
(* C1: for every path string Path.parse accepts, every command of the      *)
(* Path is in canonical absolute form: its letter is one of M Z L C S Q T  *)
(* A; the coordinates of a relative command are the offsets read plus the  *)
(* current point at the time it was read; H, h, V, v are rewritten to an L *)
(* that keeps the other coordinate of the current point; and there is one  *)
(* output command per polycommand-split input command, in the same order.  *)
C1_CanonicalAbsoluteForm ==
    Accepted =>
        /\ Len(PathCommands) = Len(SplitInput)
        /\ \A i \in 1..Len(PathCommands) :
              /\ PathCommands[i][1] \in {"M", "Z", "L", "C", "S", "Q", "T", "A"}
              /\ CanonicalOf(SplitInput[i], PathCommands[i],
                             PointAfter(PathCommands, i - 1))

(* A relative curveto and a vertical lineto have each been read at a       *)
(* current point off both axes.                                            *)
C1_Witness ==
    /\ Accepted
    /\ \E i \in 2..Len(PathCommands) :
          /\ SplitInput[i][1] \in {"c", "v"}
          /\ PointAfter(PathCommands, i - 1)[1] # 0
          /\ PointAfter(PathCommands, i - 1)[2] # 0
          /\ PathCommands[i] # SplitInput[i]

-----------------------------------------------------------------------------
(* C2: while a command sequence is made absolute, from the current point   *)
(* (0,0) and the subpath start (0,0): after each command the current point *)
(* is that command's absolute endpoint; the subpath start changes only on  *)
(* a Moveto, where it becomes the Moveto's absolute endpoint; after a      *)
(* Closepath the current point is the subpath start, so that a relative    *)
(* command after a Closepath is resolved from the point of the latest      *)
(* Moveto.                                                                 *)
C2_CurrentPointTracking ==
    [][(pc = "absolutize" /\ Len(commands') = Len(commands) + 1)
        => LET read    == Head(todo)
               yielded == Last(commands')
           IN  /\ (Len(commands) = 0 => cx = 0 /\ cy = 0 /\ mx = 0 /\ my = 0)
               /\ IF yielded[1] = "M"
                  THEN /\ read[1] \in {"M", "m"}
                       /\ <<mx', my'>> = <<yielded[2], yielded[3]>>
                       /\ <<cx', cy'>> = <<yielded[2], yielded[3]>>
                  ELSE /\ read[1] \notin {"M", "m"}
                       /\ <<mx', my'>> = <<mx, my>>
               /\ yielded[1] = "Z" <=> read[1] \in {"Z", "z"}
               /\ yielded[1] = "Z" => <<cx', cy'>> = <<mx, my>>
               /\ yielded[1] \notin {"M", "Z"} =>
                      <<cx', cy'>> = <<yielded[Len(yielded) - 1],
                                       yielded[Len(yielded)]>>
               /\ (Len(commands) > 0 /\ Last(commands)[1] = "Z"
                       /\ IsRelative(read)) =>
                      <<cx', cy'>> =
                          RelativeTarget(read,
                              LastMovetoPoint(commands, Len(commands)))
      ]_vars

(* A relative command has been resolved after a Closepath that came back   *)
(* from elsewhere to a subpath start other than the origin.                *)
C2_Witness ==
    /\ pc = "absolutize"
    /\ Len(commands) >= 4
    /\ LET n == Len(commands)
       IN  /\ IsRelative(SplitInput[n])
           /\ commands[n - 1][1] = "Z"
           /\ commands[n - 2][1] = "L"
           /\ LastMovetoPoint(commands, n) # <<0, 0>>
           /\ PointAfter(commands, n - 2) # LastMovetoPoint(commands, n)
           /\ <<cx, cy>> # <<mx, my>>
-----------------------------------------------------------------------------
(* The command tuples _parse_commands yields for the path string.          *)
ParsedInput == _parse_commands(path_str).val

(* A command the splitting rule speaks of: at most arity arguments, or a   *)
(* whole number of groups of a positive arity.                             *)
WholeGroups(command) ==
    LET n == _arg_counts[command[1]]
    IN  \/ Len(command) - 1 <= n
        \/ n > 0 /\ (Len(command) - 1) % n = 0

(* What the rule says such a command is split into.                        *)
ExpectedSplit(command) ==
    LET n == _arg_counts[command[1]]
    IN  IF Len(command) - 1 <= n
        THEN <<command>>
        ELSE [j \in 1..((Len(command) - 1) \div n) |->
                 <<(IF j > 1 /\ command[1] = "M" THEN "L"
                    ELSE IF j > 1 /\ command[1] = "m" THEN "l"
                    ELSE command[1])>>
                 \o [a \in 1..n |-> command[1 + (j - 1) * n + a]]]

(* C3: polycommand splitting. A letter of arity n > 0 followed by k*n      *)
(* arguments, k >= 2, is split into exactly k commands, each with n        *)
(* consecutive arguments in the original order and the same letter, but    *)
(* that every command after the first of an M (m) carries L (l); a command *)
(* with at most n arguments is passed through unchanged.                   *)
C3_PolycommandSplitting ==
    (\A i \in 1..Len(ParsedInput) : WholeGroups(ParsedInput[i])) =>
        /\ ~(pc = "split" /\ error # "none")
        /\ (pc = "absolutize" /\ Len(commands) = 0 /\ error = "none") =>
               todo = Concat([i \in 1..Len(ParsedInput) |->
                                 ExpectedSplit(ParsedInput[i])])

(* A Moveto of three groups and a polycommand of another letter have been  *)
(* split.                                                                  *)
C3_Witness ==
    /\ pc = "absolutize" /\ Len(commands) = 0 /\ error = "none"
    /\ Len(ParsedInput) = 2
    /\ \A i \in 1..Len(ParsedInput) : WholeGroups(ParsedInput[i])
    /\ ParsedInput[1][1] = "M" /\ Len(ParsedInput[1]) = 7
    /\ ParsedInput[2][1] = "a" /\ Len(ParsedInput[2]) = 15
    /\ Len(todo) = 5

-----------------------------------------------------------------------------
(* C4: making absolute is idempotent. For every command sequence the       *)
(* parser accepts, the absolutize pass run on the output of the absolutize *)
(* pass yields the same command sequence.                                  *)
C4_AbsolutizeIdempotent ==
    AbsolutizeDone => _to_absolute_commands(commands) = Return(commands)

(* The first pass has rewritten a relative command read away from the      *)
(* origin.                                                                 *)
C4_Witness ==
    /\ Accepted
    /\ \E i \in 2..Len(commands) :
          /\ IsRelative(SplitInput[i])
          /\ PointAfter(commands, i - 1) # <<0, 0>>
          /\ commands[i] # SplitInput[i]
          /\ commands[i][1] # SplitInput[i][1]

-----------------------------------------------------------------------------
(* C5: every subpath of every Path that Path.parse returns is a non-empty  *)
(* command sequence whose first command is a Moveto and which holds no     *)
(* other Moveto; a subpath starts at every Moveto, and the subpaths        *)
(* chained in order are the absolutized command stream.                    *)
C5_SubpathsStartWithMoveto ==
    Accepted =>
        /\ \A i \in 1..Len(subpaths) :
              /\ Len(subpaths[i]) > 0
              /\ subpaths[i][1][1] = "M"
              /\ \A j \in 2..Len(subpaths[i]) : subpaths[i][j][1] # "M"
        /\ Len(subpaths) =
               Cardinality({j \in 1..Len(commands) : commands[j][1] = "M"})
        /\ PathCommands = commands
-----------------------------------------------------------------------------
(* The final (x, y) of each of the commands of cmds, as Command.endpoint   *)
(* gives it.                                                               *)
Endpoints(cmds) == [i \in 1..Len(cmds) |-> endpoint(cmds[i])]

(* The shape the linearization rule gives a subpath.                       *)
ExpectedShape(subpath) ==
    IF Last(subpath)[1] = "Z"
    THEN Shape("Polygon", Endpoints(SubSeq(subpath, 1, Len(subpath) - 1)))
    ELSE IF Len(Endpoints(subpath)) = 2
         THEN Shape("Line", Endpoints(subpath))
         ELSE Shape("Polyline", Endpoints(subpath))

(* C6: linearizing a subpath selects the shape from the command sequence   *)
(* alone: a subpath that ends in a Closepath gives a Polygon of the        *)
(* endpoints of the commands before the Closepath, in order; any other     *)
(* gives a Line if exactly two points resulted and else a Polyline of all  *)
(* command endpoints in order; control points are never vertices.          *)
C6_LinearizeSelectsShape ==
    /\ pc = "parsed" => error = "none"
    /\ (pc = "shapes" /\ repaired = {}) =>
           /\ Len(shapes) = Len(subpaths)
           /\ \A i \in 1..Len(shapes) : shapes[i] = ExpectedShape(subpaths[i])

-----------------------------------------------------------------------------
(* C7: the Polygon that linearizing a closed subpath produces never has a  *)
(* final vertex equal to its first: a final collected point equal to the   *)
(* first is dropped during linearization. (Stated of the subpaths that     *)
(* start with a Moveto and whose vertices are all points.)                 *)
C7_NoClosingDuplicate ==
    (pc = "shapes" /\ repaired = {}) =>
        \A i \in 1..Len(shapes) :
            (/\ shapes[i].type = "Polygon"
             /\ subpaths[i][1][1] = "M"
             /\ Len(shapes[i].points) >= 2
             /\ \A k \in 1..Len(shapes[i].points) : shapes[i].points[k] # None)
            => Last(shapes[i].points) # shapes[i].points[1]

-----------------------------------------------------------------------------
(* The points of the Polygon that get_basic_shape made of the i-th         *)
(* subpath, before any repair.                                             *)
LinearizedPoints(i) == get_basic_shape(subpaths[i]).val.points

(* The points without a final point that equals the first.                 *)
WithoutClosingPoint(points) ==
    IF Len(points) >= 2 /\ Last(points) = points[1]
    THEN SubSeq(points, 1, Len(points) - 1)
    ELSE points

RECURSIVE TwiceArea(_, _)
(* The shoelace sum of the first n edges of a closed vertex list.          *)
TwiceArea(points, n) ==
    IF n = 0 THEN 0
    ELSE LET a == points[n]
             b == IF n = Len(points) THEN points[1] ELSE points[n + 1]
         IN  TwiceArea(points, n - 1) + (a[1] * b[2] - b[1] * a[2])

(* repair returned (a vertex that is None makes it raise TypeError).       *)
RepairReturned(i) ==
    i \in repaired /\ \A k \in 1..Len(shapes[i].points) :
                          shapes[i].points[k] # None

(* C8: polygon winding. Of the Polygon of any linearized closed subpath,   *)
(* repair never yields a negative signed area: after repair the shoelace   *)
(* area of the vertex list is >= 0, the vertex order being reversed        *)
(* exactly when the area was negative.                                     *)
C8_RepairWinding ==
    \A i \in 1..Len(shapes) :
        RepairReturned(i) =>
            LET before == WithoutClosingPoint(LinearizedPoints(i))
                after  == shapes[i].points
            IN  /\ TwiceArea(after, Len(after)) >= 0
                /\ Polygon_area(after).val >= 0
                /\ TwiceArea(before, Len(before)) < 0 =>
                       after = Reverse(before)
                /\ TwiceArea(before, Len(before)) >= 0 => after = before

(* repair has reversed a triangle of negative area into one of area 50.    *)
C8_Witness ==
    \E i \in 1..Len(shapes) :
        /\ RepairReturned(i)
        /\ Len(shapes[i].points) = 3
        /\ TwiceArea(LinearizedPoints(i), 3) = -100
        /\ Polygon_area(shapes[i].points).val = 50
        /\ shapes[i].points # LinearizedPoints(i)

-----------------------------------------------------------------------------
(* Matrix.parse has returned: matrix is its result.                        *)
ParseReturned == pc \in {"returned", "transformed"} /\ error = "none"

(* Every transform of the list has the name of a transform and a number of *)
(* arguments its constructor accepts.                                      *)
Constructible(ts) ==
    \A i \in 1..Len(ts) :
        /\ ts[i].name \in TransformNames
        /\ Len(ts[i].args) \in AcceptedArgCounts[ts[i].name]

(* acc * T1 * T2 * ... * Tn, associated to the left.                       *)
RECURSIVE LeftFold(_, _)
LeftFold(acc, ts) ==
    IF Len(ts) = 0 THEN acc
    ELSE LeftFold(Mul(acc, Construct(Head(ts).name, Head(ts).args).val),
                  Tail(ts))

(* C9: Matrix.parse of a transform list "t1(..) t2(..) ... tn(..)" returns *)
(* the left fold identity * T1 * T2 * ... * Tn of the constructed matrices *)
(* in textual order, the identity for the empty string; the matrix parsed  *)
(* from "translate(10,5) scale(2)" maps (0,0) to (10,5) and (1,1) to       *)
(* (12,7).                                                                 *)
C9_ParseIsLeftFold ==
    /\ Constructible(transforms) => error = "none"
    /\ ParseReturned /\ Constructible(transforms)
           => matrix = LeftFold(<<1, 0, 0, 1, 0, 0>>, transforms)
    /\ ParseReturned /\ transform_list_str = <<>>
           => matrix = <<1, 0, 0, 1, 0, 0>>
    /\ (/\ pc = "transformed"
        /\ transforms = <<Transform("translate", <<10, 5>>),
                          Transform("scale", <<2>>)>>)
           => /\ point = <<0, 0>> => image = <<10, 5>>
              /\ point = <<1, 1>> => image = <<12, 7>>

C9_Witness ==
    /\ pc = "transformed"
    /\ transform_list_str =
           <<Word("translate"), OpenParen, Number(10), Comma, Number(5),
             CloseParen, Space, Word("scale"), OpenParen, Number(2),
             CloseParen>>
    /\ matrix = <<2, 0, 0, 2, 10, 5>>
    /\ point = <<1, 1>>
    /\ image = <<12, 7>>

(* What a transform of the SVG grammar does to a point, from its meaning:  *)
(* a translation by (tx, ty) with ty 0 when left out, a scaling by         *)
(* (sx, sy) with sy sx when left out, a rotation by a quarter turn times   *)
(* angle / 90 about the origin or the given centre, a skew along an axis   *)
(* by the tangent of the angle, and the affine map of six components.      *)
SvgArgCounts ==
    [matrix |-> {6}, translate |-> {1, 2}, scale |-> {1, 2},
     rotate |-> {1, 3}, skewX |-> {1}, skewY |-> {1}]

Listed(ts) ==
    \A i \in 1..Len(ts) :
        /\ ts[i].name \in DOMAIN SvgArgCounts
        /\ Len(ts[i].args) \in SvgArgCounts[ts[i].name]

RECURSIVE QuarterTurns(_, _)
QuarterTurns(n, p) ==
    IF n = 0 THEN p ELSE QuarterTurns(n - 1, <<-p[2], p[1]>>)

Applied(t, p) ==
    LET x == p[1]
        y == p[2]
        v == t.args
    IN  CASE t.name = "translate" ->
                 <<x + v[1], y + (IF Len(v) = 2 THEN v[2] ELSE 0)>>
          [] t.name = "scale" ->
                 <<v[1] * x, (IF Len(v) = 2 THEN v[2] ELSE v[1]) * y>>
          [] t.name = "rotate" ->
                 LET centre == IF Len(v) = 3 THEN <<v[2], v[3]>> ELSE <<0, 0>>
                     turned == QuarterTurns((v[1] % 360) \div 90,
                                            <<x - centre[1], y - centre[2]>>)
                 IN  <<turned[1] + centre[1], turned[2] + centre[2]>>
          [] t.name = "skewX" -> <<x + TanDegrees(v[1]) * y, y>>
          [] t.name = "skewY" -> <<x, y + TanDegrees(v[1]) * x>>
          [] t.name = "matrix" ->
                 <<v[1] * x + v[3] * y + v[5], v[2] * x + v[4] * y + v[6]>>

(* tn applied to (... applied to (t1 applied to p)): t1 acts first.        *)
RECURSIVE LeftToRight(_, _)
LeftToRight(ts, p) ==
    IF Len(ts) = 0 THEN p ELSE LeftToRight(Tail(ts), Applied(Head(ts), p))

(* t1 applied to (... applied to (tn applied to p)): tn acts first.        *)
RECURSIVE RightToLeft(_, _)
RightToLeft(ts, p) ==
    IF Len(ts) = 0 THEN p ELSE Applied(Head(ts), RightToLeft(Tail(ts), p))

(* C10, as stated: for every list t1 ... tn and every point p,             *)
(* transform_point(parse(list), p) equals tn applied to (... applied to    *)
(* (t1 applied to p)), the transforms applied in left-to-right textual     *)
(* order.                                                                  *)
C10_LeftToRightApplication ==
    pc = "transformed" /\ Listed(transforms)
        => image = LeftToRight(transforms, point)

(* C10, amended: for every list t1 ... tn and every point p,               *)
(* transform_point(parse(list), p) equals t1 applied to (... applied to    *)
(* (tn applied to p)), the transforms applied in right-to-left textual     *)
(* order.                                                                  *)
C10_RightToLeftApplication ==
    /\ Listed(transforms) => error = "none"
    /\ pc = "transformed" /\ Listed(transforms)
           => image = RightToLeft(transforms, point)

C10_Witness ==
    /\ pc = "transformed"
    /\ Len(transforms) = 2
    /\ Listed(transforms)
    /\ image = RightToLeft(transforms, point)
    /\ image # LeftToRight(transforms, point)

-----------------------------------------------------------------------------
(* Matrix composition and application on their own: three matrices A, B,   *)
(* C and a point p are given, and Matrix.__mul__ and transform_point are   *)
(* called on them and on one another's results. I is Matrix().             *)

(* Matrix.__mul__ without the translation of its left operand.             *)
MulDropsTranslation(self, other) ==
    <<self[1] * other[1] + self[3] * other[2],
      self[2] * other[1] + self[4] * other[2],
      self[1] * other[3] + self[3] * other[4],
      self[2] * other[3] + self[4] * other[4],
      self[1] * other[5] + self[3] * other[6],
      self[2] * other[5] + self[4] * other[6]>>

(* Matrix.__mul__ with the operands exchanged.                             *)
MulExchanged(self, other) ==
    <<other[1] * self[1] + other[3] * self[2],
      other[2] * self[1] + other[4] * self[2],
      other[1] * self[3] + other[3] * self[4],
      other[2] * self[3] + other[4] * self[4],
      other[1] * self[5] + other[3] * self[6] + other[5],
      other[2] * self[5] + other[4] * self[6] + other[6]>>

(* self * other, as the calls below make it.                               *)
Matrix_mul(self, other) == Mul(self, other)

Call(name, method, self, arg) ==
    [name |-> name, method |-> method, self |-> self, arg |-> arg]

(* The calls, in the order they are made: each is named by what it         *)
(* computes.                                                               *)
Calls ==
    <<Call("AB", "__mul__", "A", "B"),
      Call("BC", "__mul__", "B", "C"),
      Call("(AB)C", "__mul__", "AB", "C"),
      Call("A(BC)", "__mul__", "A", "BC"),
      Call("AI", "__mul__", "A", "I"),
      Call("IA", "__mul__", "I", "A"),
      Call("AB.p", "transform_point", "AB", "p"),
      Call("B.p", "transform_point", "B", "p"),
      Call("A.(B.p)", "transform_point", "A", "B.p"),
      Call("A.p", "transform_point", "A", "p"),
      Call("AI.p", "transform_point", "AI", "p"),
      Call("IA.p", "transform_point", "IA", "p")>>

(* The value a name stands for: an operand, Matrix(), or a result.         *)
ValueOf(name) ==
    IF name \in {"A", "B", "C", "p"} THEN operands[name]
    ELSE IF name = "I" THEN Identity
    ELSE values[name]

Computed(name) == name \in DOMAIN values

WithValue(name, v) ==
    [k \in DOMAIN values \cup {name} |-> IF k = name THEN v ELSE values[k]]

(* Translations, scalings, a quarter turn, a skew and a matrix of six      *)
(* different components: pairs that commute and pairs that do not.         *)
Matrices ==
    {Identity,
     create_translate(<<10, 5>>),
     create_scale(<<2>>),
     create_scale(<<2, 3>>),
     create_rotate(<<90>>),
     create_skew_x(<<45>>),
     Matrix_init(<<1, 2, 3, 4, 5, 6>>)}

InitAlgebra ==
    /\ operands \in [A : Matrices, B : Matrices, C : Matrices, p : Points]
    /\ work = Calls
    /\ values = <<>>
    /\ pc = "algebra"
    /\ error = "none"
    /\ PathIdle /\ MatrixIdle /\ BoxIdle /\ ElementIdle
    /\ SceneIdle /\ ColorIdle /\ HeapIdle

(* self * other                                                            *)
Multiply ==
    /\ pc = "algebra" /\ Len(work) > 0
    /\ Head(work).method = "__mul__"
    /\ values' = WithValue(Head(work).name,
                           Matrix_mul(ValueOf(Head(work).self),
                                      ValueOf(Head(work).arg)))
    /\ work' = Tail(work)
    /\ UNCHANGED <<pc, error, operands, path_vars, matrix_vars, box_vars,
                   element_vars, scene_vars, color_vars, heap_vars>>

(* self.transform_point(x, y)                                              *)
ApplyToPoint ==
    /\ pc = "algebra" /\ Len(work) > 0
    /\ Head(work).method = "transform_point"
    /\ values' = WithValue(Head(work).name,
                           transform_point(ValueOf(Head(work).self),
                                           ValueOf(Head(work).arg)[1],
                                           ValueOf(Head(work).arg)[2]))
    /\ work' = Tail(work)
    /\ UNCHANGED <<pc, error, operands, path_vars, matrix_vars, box_vars,
                   element_vars, scene_vars, color_vars, heap_vars>>

NextAlgebra ==
    \/ Multiply
    \/ ApplyToPoint

SpecAlgebra == InitAlgebra /\ [][NextAlgebra]_vars

(* C11: composition applies the right operand first. For all matrices T1,  *)
(* T2 and every point (x,y), transform_point(T1 * T2, x, y) equals         *)
(* transform_point(T1, transform_point(T2, x, y)).                         *)
C11_RightOperandFirst ==
    Computed("AB.p") /\ Computed("A.(B.p)")
        => /\ values["AB"] = Mul(operands.A, operands.B)
           /\ values["AB.p"] = values["A.(B.p)"]

(* Both sides are computed, for two matrices that do not commute.          *)
C11_Witness ==
    /\ Computed("AB.p") /\ Computed("A.(B.p)")
    /\ values["AB.p"] = values["A.(B.p)"]
    /\ operands.A = create_translate(<<10, 5>>)
    /\ operands.B = create_scale(<<2>>)
    /\ operands.p = <<1, 1>>
    /\ values["AB.p"] = <<12, 7>>

(* C12: composition is a monoid. For all matrices A, B, C, (A*B)*C equals  *)
(* A*(B*C) component for component; the identity (1,0,0,1,0,0) is neutral  *)
(* on both sides, and transform_point(T * identity, x, y) equals           *)
(* transform_point(T, x, y) for every point.                               *)
C12_CompositionIsMonoid ==
    /\ Computed("(AB)C") /\ Computed("A(BC)")
           => \A i \in 1..6 : values["(AB)C"][i] = values["A(BC)"][i]
    /\ Computed("AI") => values["AI"] = operands.A
    /\ Computed("IA") => values["IA"] = operands.A
    /\ Computed("AI.p") /\ Computed("A.p") => values["AI.p"] = values["A.p"]
    /\ Identity = <<1, 0, 0, 1, 0, 0>>

(* Every product and image is computed, for three different matrices none  *)
(* of which is the identity and with A a matrix that moves the origin.     *)
C12_Witness ==
    /\ Len(work) = 0
    /\ values["(AB)C"] = values["A(BC)"]
    /\ values["AI"] = operands.A
    /\ values["AI.p"] = values["A.p"]
    /\ operands.A = Matrix_init(<<1, 2, 3, 4, 5, 6>>)
    /\ operands.B = create_rotate(<<90>>)
    /\ operands.C = create_translate(<<10, 5>>)

-----------------------------------------------------------------------------
(* Transform lists that are not all well formed: the pieces below, one     *)
(* space between them.                                                     *)

RECURSIVE JoinWithSpaces(_)
JoinWithSpaces(pieces) ==
    IF Len(pieces) = 0 THEN <<>>
    ELSE IF Len(pieces) = 1 THEN pieces[1]
    ELSE pieces[1] \o <<Space>> \o JoinWithSpaces(Tail(pieces))

(* translate(10,5), translate ( 3 ), matrix(1,2), foo(1), foo(abc), foo,   *)
(* translate(1 and scale 2).                                               *)
TransformPieces ==
    {TransformText(Transform("translate", <<10, 5>>)),
     <<Word("translate"), Space, OpenParen, Space, Number(3), Space,
       CloseParen>>,
     TransformText(Transform("matrix", <<1, 2>>)),
     TransformText(Transform("foo", <<1>>)),
     <<Word("foo"), OpenParen, Word("abc"), CloseParen>>,
     <<Word("foo")>>,
     <<Word("translate"), OpenParen, Number(1)>>,
     <<Word("scale"), Space, Number(2), CloseParen>>}

MaxPieces == 2

InitTransformText ==
    /\ transforms \in UNION {[1..k -> TransformPieces] : k \in 0..MaxPieces}
    /\ transform_list_str = JoinWithSpaces(transforms)
    /\ pc = "matrix_parse"
    /\ error = "none"
    /\ fragments = <<>>
    /\ matrix = None
    /\ point = None
    /\ image = None
    /\ PathIdle /\ AlgebraIdle /\ BoxIdle /\ ElementIdle
    /\ SceneIdle /\ ColorIdle /\ HeapIdle

SpecTransformText == InitTransformText /\ [][NextMatrix]_vars

(* A piece of text that is a transform: one of the six names, an opening   *)
(* parenthesis, numbers separated by commas or white space, and a closing  *)
(* parenthesis, with white space allowed between them.                     *)
IsTransformText(piece) ==
    LET s == SelectSeq(piece, IsRun)
    IN  /\ Len(s) >= 3
        /\ s[1].kind = "word"
        /\ s[1].ch \in {"matrix", "translate", "scale", "rotate", "skewX",
                        "skewY"}
        /\ s[2].kind = "("
        /\ s[Len(s)].kind = ")"
        /\ \A i \in 3..(Len(s) - 1) : s[i].kind \in {"number", ","}

(* C13: Matrix.parse fails with a ParseError whenever a transform name in  *)
(* the list is not one of matrix, translate, scale, rotate, skewX, skewY;  *)
(* it never returns a matrix for a list that contains an unrecognized or   *)
(* malformed transform token, and no other error escapes for it.           *)
C13_UnknownTransformRaisesParseError ==
    (\E i \in 1..Len(transforms) : ~IsTransformText(transforms[i]))
        => /\ pc \notin {"returned", "transformed"}
           /\ error \in {"none", "ParseError"}

-----------------------------------------------------------------------------
(* Path.parse is under way or has raised: it has not returned.             *)
InPathParse == pc \in {"tokenize", "split", "absolutize"}

(* C14: Path.parse fails with ParseError, and never returns a Path, for    *)
(* the input "L10 10", a path string with no leading Moveto.               *)
C14_NoLeadingMovetoRejected ==
    path_str = <<Letter("L"), Number(10), Number(10)>>
        => /\ InPathParse
           /\ error \in {"none", "ParseError"}

(* The path string has a character of none of the three token classes.     *)
HasUnmatchedCharacter ==
    \E i \in 1..Len(path_str) : path_str[i].kind = "other"

(* The first token of the path string is a number.                         *)
NumberBeforeFirstCommand ==
    \E i \in 1..Len(path_str) :
        /\ path_str[i].kind = "number"
        /\ \A j \in 1..(i - 1) : path_str[j].kind = "separator"

(* C15: Path.parse fails with ParseError, producing no Path and no partial *)
(* command list, whenever the path string contains a character that        *)
(* belongs to none of the three token classes or a numeric token before    *)
(* the first command letter.                                               *)
C15_UntokenizableInputRaisesParseError ==
    HasUnmatchedCharacter \/ NumberBeforeFirstCommand
        => /\ pc = "tokenize"
           /\ commands = <<>>
           /\ subpaths = <<>>
           /\ error \in {"none", "ParseError"}

(* C16: ParseError is the only error kind that escapes path parsing. For   *)
(* every input string Path.parse either returns a Path or raises           *)
(* ParseError: a malformed numeric literal of legal numeric characters, an *)
(* argument count that is no multiple of the command's arity and           *)
(* arguments after Z are ParseErrors, not errors of another kind.          *)
C16_OnlyParseErrorEscapes ==
    InPathParse => error \in {"none", "ParseError"}

-----------------------------------------------------------------------------
(* Shapes and bounding boxes. A coordinate of a BoundingBox is a float     *)
(* that may be infinite: it is modelled by a pair of a sign and a number,  *)
(* <<0, n>> for the number n, <<1, 0>> for float('inf') and <<-1, 0>> for  *)
(* float('-inf'). A BoundingBox is the tuple of its min_x, min_y, max_x    *)
(* and max_y. A shape is a record of its class and its fields; a point     *)
(* given as a Python tuple is a record of type "tuple".                    *)

Finite(n) == <<0, n>>

PosInf == <<1, 0>>

NegInf == <<-1, 0>>

(* a <= b on floats                                                        *)
LessEq(a, b) == a[1] < b[1] \/ (a[1] = b[1] /\ (a[1] # 0 \/ a[2] <= b[2]))

(* min(a, b) returning its first argument whatever the second is.          *)
KeepsFirst(a, b) == a

(* min(a, b) and max(a, b)                                                 *)
min(a, b) == IF LessEq(a, b) THEN a ELSE b

max(a, b) == IF LessEq(b, a) THEN a ELSE b

MinOfInts(S) == CHOOSE n \in S : \A k \in S : n <= k

MaxOfInts(S) == CHOOSE n \in S : \A k \in S : n >= k

(* math.sqrt, on the squares of integers.                                  *)
sqrt(n) == CHOOSE r \in 0..n : r * r = n

Tuple(x, y) == [type |-> "tuple", points |-> <<<<x, y>>>>]

Line(x1, y1, x2, y2) == [type |-> "Line", points |-> <<<<x1, y1>>, <<x2, y2>>>>]

Polyline(points) == [type |-> "Polyline", points |-> points]

Polygon(points) == [type |-> "Polygon", points |-> points]

Circle(center_x, center_y, r) ==
    [type |-> "Circle", points |-> <<<<center_x, center_y>>>>, r |-> r]

Rect(x, y, width, height, rx, ry) ==
    [type |-> "Rect", points |-> <<<<x, y>>>>, width |-> width,
     height |-> height, rx |-> rx, ry |-> ry]

(* BoundingBox.__init__ with all four arguments, and with none.            *)
BoundingBox(min_x, min_y, max_x, max_y) == <<min_x, min_y, max_x, max_y>>

EmptyBoundingBox == BoundingBox(PosInf, PosInf, NegInf, NegInf)

(* A BoundingBox handed over as a shape.                                   *)
BoxShape(b) == [type |-> "BoundingBox", points |-> <<>>, box |-> b]

(* BoundingBox.__nonzero__                                                 *)
nonzero(b) == LessEq(b[1], b[3]) /\ LessEq(b[2], b[4])

(* BoundingBox(min(xs), min(ys), max(xs), max(ys)) of a non-empty list of  *)
(* points.                                                                 *)
BoxOfPoints(points) ==
    LET xs == {points[i][1] : i \in 1..Len(points)}
        ys == {points[i][2] : i \in 1..Len(points)}
    IN  BoundingBox(Finite(MinOfInts(xs)), Finite(MinOfInts(ys)),
                    Finite(MaxOfInts(xs)), Finite(MaxOfInts(ys)))

(* The bounding_box property of each class. The zip of an empty list of    *)
(* points is empty, and unpacking it into xs, ys raises ValueError.        *)
bounding_box(shape) ==
    CASE shape.type = "Line" -> Return(BoxOfPoints(shape.points))
      [] shape.type \in {"Polyline", "Polygon"} ->
            IF Len(shape.points) = 0 THEN Raise("ValueError")
            ELSE Return(BoxOfPoints(shape.points))
      [] shape.type = "Circle" ->
            LET c == shape.points[1]
            IN  Return(BoundingBox(Finite(c[1] - shape.r),
                                   Finite(c[2] - shape.r),
                                   Finite(c[1] + shape.r),
                                   Finite(c[2] + shape.r)))
      [] shape.type = "Rect" ->
            LET p == shape.points[1]
            IN  Return(BoundingBox(Finite(p[1]), Finite(p[2]),
                                   Finite(p[1] + shape.width),
                                   Finite(p[2] + shape.height)))
      [] shape.type = "BoundingBox" -> Return(shape.box)

TransformedPoints(points, m) ==
    [i \in 1..Len(points) |-> transform_point(m, points[i][1], points[i][2])]

(* The transform method of each class; Rect and BoundingBox inherit        *)
(* Shape.transform, which raises NotImplementedError.                      *)
transform(shape, m) ==
    CASE shape.type = "Line" ->
            Return([shape EXCEPT !.points = TransformedPoints(shape.points, m)])
      [] shape.type \in {"Polyline", "Polygon"} ->
            Return([shape EXCEPT !.points = TransformedPoints(shape.points, m)])
      [] shape.type = "Circle" ->
            LET c == shape.points[1]
                centre == transform_point(m, c[1], c[2])
                p == transform_point(m, c[1] + shape.r, c[2])
                r == sqrt((p[1] - centre[1]) * (p[1] - centre[1])
                          + (p[2] - centre[2]) * (p[2] - centre[2]))
            IN  Return(Circle(centre[1], centre[2], r))
      [] shape.type \in {"Rect", "BoundingBox"} -> Raise("NotImplementedError")

(* Shape.get_bounding_box                                                  *)
get_bounding_box(shape, m) ==
    LET t == transform(shape, m)
    IN  IF t.err # "none" THEN t ELSE bounding_box(t.val)

(* The four assignments that end add_point and add_shape.                  *)
Expanded(b, low_x, low_y, high_x, high_y) ==
    BoundingBox(min(b[1], low_x), min(b[2], low_y),
                max(b[3], high_x), max(b[4], high_y))

(* BoundingBox.add_point; m is None when no matrix is given.               *)
add_point(b, x, y, m) ==
    LET p == IF m # None THEN transform_point(m, x, y) ELSE <<x, y>>
    IN  Return(Expanded(b, Finite(p[1]), Finite(p[2]),
                        Finite(p[1]), Finite(p[2])))

(* BoundingBox.add_shape. With a tuple and a matrix it calls               *)
(* matrix.transform_point(shape), one argument short: TypeError.           *)
add_shape(b, shape, m) ==
    IF shape.type = "tuple"
    THEN IF m = None
         THEN LET p == shape.points[1]
              IN  Return(Expanded(b, Finite(p[1]), Finite(p[2]),
                                  Finite(p[1]), Finite(p[2])))
         ELSE Raise("TypeError")
    ELSE LET r == IF m = None THEN bounding_box(shape)
                  ELSE get_bounding_box(shape, m)
         IN  IF r.err # "none" THEN r
             ELSE Return(Expanded(b, r.val[1], r.val[2], r.val[3], r.val[4]))

(* BoundingBox.from_shapes                                                 *)
RECURSIVE AddShapes(_, _, _)
AddShapes(b, shape_list, m) ==
    IF Len(shape_list) = 0 THEN Return(b)
    ELSE LET r == add_shape(b, Head(shape_list), m)
         IN  IF r.err # "none" THEN r ELSE AddShapes(r.val, Tail(shape_list), m)

from_shapes(shape_list, m) == AddShapes(EmptyBoundingBox, shape_list, m)

-----------------------------------------------------------------------------
(* A BoundingBox is constructed and points and shapes are added to it,     *)
(* with and without a matrix; or BoundingBox.from_shapes does both.        *)

BoxPoints == {<<0, 0>>, <<3, -2>>, <<-1, 4>>}

(* One shape of every class, a Polyline of no points among them, an empty  *)
(* BoundingBox and one that is not empty.                                  *)
BoxShapes ==
    {Tuple(1, 2),
     Line(0, 0, 4, -3),
     Polygon(<<<<0, 0>>, <<10, 0>>, <<10, 10>>>>),
     Polyline(<<>>),
     Circle(1, 1, 2),
     Rect(0, 0, 3, 2, 0, 0),
     BoxShape(EmptyBoundingBox),
     BoxShape(BoundingBox(Finite(-5), Finite(-6), Finite(-4), Finite(-3)))}

(* No matrix, and matrices under which a circle stays a circle of integer  *)
(* radius.                                                                 *)
BoxMatrices ==
    {None, create_translate(<<10, 5>>), create_scale(<<2>>),
     create_rotate(<<90>>)}

MaxAdded == 2

AddedEntry(shape, m) == [shape |-> shape, matrix |-> m]

InitBox ==
    /\ box = None
    /\ added = <<>>
    /\ pc = "box_new"
    /\ error = "none"
    /\ PathIdle /\ MatrixIdle /\ AlgebraIdle /\ ElementIdle
    /\ SceneIdle /\ ColorIdle /\ HeapIdle

(* BoundingBox()                                                           *)
ConstructBox ==
    /\ pc = "box_new" /\ error = "none"
    /\ box' = EmptyBoundingBox
    /\ pc' = "box"
    /\ UNCHANGED <<error, added, path_vars, matrix_vars, algebra_vars,
                   element_vars, scene_vars, color_vars, heap_vars>>

(* box.add_point(x, y, matrix)                                             *)
AddPoint ==
    /\ pc = "box" /\ error = "none"
    /\ Len(added) < MaxAdded
    /\ \E p \in BoxPoints, m \in BoxMatrices :
          LET r == add_point(box, p[1], p[2], m)
          IN  /\ box' = r.val
              /\ added' = Append(added, AddedEntry(Tuple(p[1], p[2]), m))
    /\ UNCHANGED <<pc, error, path_vars, matrix_vars, algebra_vars,
                   element_vars, scene_vars, color_vars, heap_vars>>

(* box.add_shape(shape, matrix)                                            *)
AddShape ==
    /\ pc = "box" /\ error = "none"
    /\ Len(added) < MaxAdded
    /\ \E shape \in BoxShapes, m \in BoxMatrices :
          LET r == add_shape(box, shape, m)
          IN  IF r.err = "none"
              THEN /\ box' = r.val
                   /\ added' = Append(added, AddedEntry(shape, m))
                   /\ error' = error
              ELSE /\ error' = r.err
                   /\ UNCHANGED <<box, added>>
    /\ UNCHANGED <<pc, path_vars, matrix_vars, algebra_vars,
                   element_vars, scene_vars, color_vars, heap_vars>>

(* BoundingBox.from_shapes(shapes, matrix)                                 *)
FromShapes ==
    /\ pc = "box_new" /\ error = "none"
    /\ \E shape_list \in UNION {[1..k -> BoxShapes] : k \in 0..MaxAdded},
          m \in BoxMatrices :
          LET r == from_shapes(shape_list, m)
          IN  IF r.err = "none"
              THEN /\ box' = r.val
                   /\ added' = [i \in 1..Len(shape_list) |->
                                   AddedEntry(shape_list[i], m)]
                   /\ pc' = "box_from_shapes"
                   /\ error' = error
              ELSE /\ error' = r.err
                   /\ UNCHANGED <<box, added, pc>>
    /\ UNCHANGED <<path_vars, matrix_vars, algebra_vars,
                   element_vars, scene_vars, color_vars, heap_vars>>

NextBox ==
    \/ ConstructBox
    \/ AddPoint
    \/ AddShape
    \/ FromShapes

SpecBox == InitBox /\ [][NextBox]_vars

(* The image of a point under a matrix, none when the matrix is None.      *)
ImageOf(m, p) ==
    IF m = None THEN p
    ELSE <<m[1] * p[1] + m[3] * p[2] + m[5], m[2] * p[1] + m[4] * p[2] + m[6]>>

(* The points whose componentwise minimum and maximum bound what a call    *)
(* added: the point, the vertices, the corners of the square about a       *)
(* circle, the corners of a rectangle or of a box that is not empty, all   *)
(* under the matrix of the call.                                           *)
ExtentOf(entry) ==
    LET shape == entry.shape
        m == entry.matrix
    IN  CASE shape.type \in {"tuple", "Line", "Polyline", "Polygon"} ->
                {ImageOf(m, shape.points[i]) : i \in 1..Len(shape.points)}
          [] shape.type = "Circle" ->
                LET c == ImageOf(m, shape.points[1])
                    r == IF m = None THEN shape.r
                         ELSE shape.r * sqrt(m[1] * m[1] + m[2] * m[2])
                IN  {<<c[1] - r, c[2] - r>>, <<c[1] + r, c[2] + r>>}
          [] shape.type = "Rect" ->
                {shape.points[1],
                 <<shape.points[1][1] + shape.width,
                   shape.points[1][2] + shape.height>>}
          [] shape.type = "BoundingBox" ->
                IF shape.box[1][1] = 0
                THEN {<<shape.box[1][2], shape.box[2][2]>>,
                      <<shape.box[3][2], shape.box[4][2]>>}
                ELSE {}

(* The smallest box about a set of points, the empty box about no point.   *)
BoxAbout(points) ==
    IF points = {} THEN <<<<1, 0>>, <<1, 0>>, <<-1, 0>>, <<-1, 0>>>>
    ELSE <<<<0, MinOfInts({p[1] : p \in points})>>,
           <<0, MinOfInts({p[2] : p \in points})>>,
           <<0, MaxOfInts({p[1] : p \in points})>>,
           <<0, MaxOfInts({p[2] : p \in points})>>>>

BoxConstructed == pc \in {"box", "box_from_shapes"}

-----------------------------------------------------------------------------
(* Element trees. The elements of a tree are numbered from the root, 1,    *)
(* each after its parent and the children of an element in the order of    *)
(* Element.children; an element is a record of its parent's number (0 for  *)
(* the root), its matrix and its shapes.                                   *)

Element(parent, local, shape_list) ==
    [parent |-> parent, matrix |-> local, shapes |-> shape_list]

(* Element.children: the elements numbered from j on whose parent is i.    *)
RECURSIVE ChildrenFrom(_, _, _)
ChildrenFrom(tree, i, j) ==
    IF j > Len(tree) THEN <<>>
    ELSE IF tree[j].parent = i THEN <<j>> \o ChildrenFrom(tree, i, j + 1)
    ELSE ChildrenFrom(tree, i, j + 1)

children(tree, i) == ChildrenFrom(tree, i, 1)

(* local * matrix, the operands of Element.get_bounding_box exchanged.     *)
AccumulatedExchanged(m, local) == Mul(local, m)

(* matrix = matrix * self.matrix                                           *)
Accumulated(m, local) == Mul(m, local)

(* The one element of a singleton set. A value bound as the element of a   *)
(* singleton is computed once, however often it is used afterwards.        *)
TheOne(S) == CHOOSE x \in S : TRUE

(* Element.get_bounding_box, in two parts. Before the element is entered   *)
(* m is the argument matrix: the matrices are accumulated and the          *)
(* element's own shapes are boxed. Once entered, m is the accumulated      *)
(* matrix, b the box so far and kids the children yet to visit: the box of *)
(* each child under m is added to b.                                       *)
RECURSIVE BoxOfElement(_, _, _, _, _, _)
BoxOfElement(tree, i, m, entered, kids, b) ==
    IF ~entered
    THEN TheOne({TheOne({
             IF own.err # "none" THEN own
             ELSE BoxOfElement(tree, i, accumulated, TRUE, rest, own.val) :
                 own \in {from_shapes(tree[i].shapes, accumulated)},
                 rest \in {children(tree, i)}}) :
             accumulated \in {Accumulated(m, tree[i].matrix)}})
    ELSE IF Len(kids) = 0 THEN Return(b)
    ELSE TheOne({
             IF child_bounding_box.err # "none" THEN child_bounding_box
             ELSE TheOne({
                      IF r.err # "none" THEN r
                      ELSE TheOne({BoxOfElement(tree, i, m, TRUE, rest, bb) :
                                      rest \in {Tail(kids)}, bb \in {r.val}}) :
                          r \in {add_shape(b,
                                           BoxShape(child_bounding_box.val),
                                           None)}}) :
                 child_bounding_box \in
                     {BoxOfElement(tree, Head(kids), m, FALSE, <<>>,
                                   EmptyBoundingBox)}})

Element_get_bounding_box(tree, i, m) ==
    BoxOfElement(tree, i, m, FALSE, <<>>, EmptyBoundingBox)

(* What an element may be: a matrix of its own and shapes of its own, or   *)
(* none; matrices that do not commute among them.                          *)
ElementKinds ==
    {<<Identity, <<>>>>,
     <<create_translate(<<10, 5>>), <<>>>>,
     <<create_translate(<<10, 5>>),
       <<Polygon(<<<<0, 0>>, <<10, 0>>, <<10, 10>>>>)>>>>,
     <<create_scale(<<2>>), <<Circle(1, 1, 2)>>>>,
     <<create_rotate(<<90>>),
       <<Line(0, 0, 4, -3), Polygon(<<<<1, 1>>, <<3, 1>>, <<2, 5>>>>)>>>>,
     <<create_scale(<<2, 3>>), <<Line(1, 2, -1, 0)>>>>}

MaxElements == 3

(* The trees of n elements: every choice of a parent among the elements    *)
(* numbered before, and of a kind, for each.                               *)
TreesOf(n) ==
    {[i \in 1..n |-> Element(parents[i], kinds[i][1], kinds[i][2])] :
        parents \in {f \in [1..n -> 0..n] :
                        /\ f[1] = 0
                        /\ \A i \in 2..n : f[i] >= 1 /\ f[i] < i},
        kinds \in [1..n -> ElementKinds]}

OuterMatrices == {create_scale(<<2>>), create_translate(<<3>>)}

InitElement ==
    /\ elements \in UNION {TreesOf(n) : n \in 1..MaxElements}
    /\ outer = None
    /\ element_box = None
    /\ pc = "element"
    /\ error = "none"
    /\ PathIdle /\ MatrixIdle /\ AlgebraIdle /\ BoxIdle
    /\ SceneIdle /\ ColorIdle /\ HeapIdle

(* root.get_bounding_box(matrix)                                           *)
GetBoundingBox ==
    /\ pc = "element" /\ error = "none"
    /\ \E m \in OuterMatrices :
          LET r == Element_get_bounding_box(elements, 1, m)
          IN  /\ outer' = m
              /\ IF r.err = "none"
                 THEN element_box' = r.val /\ pc' = "element_box"
                      /\ error' = error
                 ELSE error' = r.err /\ UNCHANGED <<element_box, pc>>
    /\ UNCHANGED <<elements, path_vars, matrix_vars, algebra_vars, box_vars,
                   scene_vars, color_vars, heap_vars>>

(* root.bounding_box                                                       *)
BoundingBoxProperty ==
    /\ pc = "element" /\ error = "none"
    /\ LET r == Element_get_bounding_box(elements, 1, Identity)
       IN  /\ outer' = Identity
           /\ IF r.err = "none"
              THEN element_box' = r.val /\ pc' = "element_box"
                   /\ error' = error
              ELSE error' = r.err /\ UNCHANGED <<element_box, pc>>
    /\ UNCHANGED <<elements, path_vars, matrix_vars, algebra_vars, box_vars,
                   scene_vars, color_vars, heap_vars>>

NextElement ==
    \/ GetBoundingBox
    \/ BoundingBoxProperty

SpecElement == InitElement /\ [][NextElement]_vars

(* outer * (the matrices of the elements from the root down to element j,  *)
(* in that order); outer alone above the root.                             *)
RECURSIVE ProductTo(_, _, _)
ProductTo(tree, j, m) ==
    IF j = 0 THEN m
    ELSE TheOne({Mul(above, tree[j].matrix) :
                    above \in {ProductTo(tree, tree[j].parent, m)}})

(* The point p of element j's space carried up the tree: through the       *)
(* matrix of j first, then through the matrix of each ancestor in turn,    *)
(* and through m last.                                                     *)
RECURSIVE MappedUp(_, _, _, _)
MappedUp(tree, j, m, p) ==
    IF j = 0 THEN ImageOf(m, p)
    ELSE TheOne({MappedUp(tree, tree[j].parent, m, q) :
                    q \in {ImageOf(tree[j].matrix, p)}})

(* The shapes of a tree, each with the element that owns it.               *)
OwnedShapes(tree) ==
    UNION {{<<j, k>> : k \in 1..Len(tree[j].shapes)} : j \in 1..Len(tree)}

ElementBoxed == pc = "element_box"

(* C17: element nesting composes as parent_transform * local_transform at  *)
(* every depth. The bounding box of the root under an outer matrix M is    *)
(* the union, over every shape of every element of the tree, of the        *)
(* bounding box of that shape transformed by M * (the matrices from the    *)
(* root down to the shape's owner, in root-to-leaf order); a point of a    *)
(* shape maps through its owner's matrix first and then its ancestors',    *)
(* and its image lies in the box.                                          *)
C17_NestingComposesParentTimesLocal ==
    ElementBoxed =>
        /\ element_box =
              BoxAbout(UNION {ExtentOf(AddedEntry(
                                  elements[jk[1]].shapes[jk[2]],
                                  ProductTo(elements, jk[1], outer))) :
                              jk \in OwnedShapes(elements)})
        /\ \A jk \in OwnedShapes(elements) :
              LET shape == elements[jk[1]].shapes[jk[2]]
              IN  shape.type \in {"Line", "Polyline", "Polygon"} =>
                      \A i \in 1..Len(shape.points) :
                          LET q == MappedUp(elements, jk[1], outer,
                                            shape.points[i])
                          IN  /\ q = ImageOf(ProductTo(elements, jk[1], outer),
                                             shape.points[i])
                              /\ LessEq(element_box[1], <<0, q[1]>>)
                              /\ LessEq(<<0, q[1]>>, element_box[3])
                              /\ LessEq(element_box[2], <<0, q[2]>>)
                              /\ LessEq(<<0, q[2]>>, element_box[4])

(* A chain of three elements under scale(2): translate(10, 5) above        *)
(* rotate(90), with a line and a triangle, above scale(2, 3), with a line. *)
C17_Witness ==
    /\ ElementBoxed
    /\ outer = create_scale(<<2>>)
    /\ Len(elements) = 3
    /\ elements[1] = Element(0, create_translate(<<10, 5>>), <<>>)
    /\ elements[2] = Element(1, create_rotate(<<90>>),
                             <<Line(0, 0, 4, -3),
                               Polygon(<<<<1, 1>>, <<3, 1>>, <<2, 5>>>>)>>)
    /\ elements[3] = Element(2, create_scale(<<2, 3>>),
                             <<Line(1, 2, -1, 0)>>)
    /\ element_box = <<Finite(8), Finite(6), Finite(26), Finite(18)>>

-----------------------------------------------------------------------------
(* Colors. A color string is a sequence of characters; a Color is the      *)
(* triple of its red, green and blue channels.                             *)

UpperCase ==
    <<"A", "B", "C", "D", "E", "F", "G", "H", "I", "J", "K", "L", "M",
      "N", "O", "P", "Q", "R", "S", "T", "U", "V", "W", "X", "Y", "Z">>

LowerCase ==
    <<"a", "b", "c", "d", "e", "f", "g", "h", "i", "j", "k", "l", "m",
      "n", "o", "p", "q", "r", "s", "t", "u", "v", "w", "x", "y", "z">>

(* str.lower()                                                             *)
lower(s) ==
    [i \in 1..Len(s) |->
        IF \E k \in 1..26 : UpperCase[k] = s[i]
        THEN LowerCase[CHOOSE k \in 1..26 : UpperCase[k] = s[i]]
        ELSE s[i]]

HexDigits ==
    <<"0", "1", "2", "3", "4", "5", "6", "7", "8", "9",
      "a", "b", "c", "d", "e", "f">>

IsHexDigit(ch) == \E k \in 1..16 : HexDigits[k] = ch

HexDigitValue(ch) == (CHOOSE k \in 1..16 : HexDigits[k] = ch) - 1

(* The value of a run of hexadecimal digits, the most significant first.   *)
RECURSIVE HexNumber(_)
HexNumber(digits) ==
    IF Len(digits) = 0 THEN 0
    ELSE 16 * HexNumber(SubSeq(digits, 1, Len(digits) - 1))
         + HexDigitValue(digits[Len(digits)])

(* White space off both ends of a string of characters.                    *)
RECURSIVE StripSpaces(_)
StripSpaces(s) ==
    IF Len(s) > 0 /\ s[1] = " " THEN StripSpaces(Tail(s))
    ELSE IF Len(s) > 0 /\ s[Len(s)] = " "
    THEN StripSpaces(SubSeq(s, 1, Len(s) - 1))
    ELSE s

(* int(s, 16): white space around the literal is dropped, then a sign and  *)
(* a prefix 0x are accepted before the digits, of which there must be one  *)
(* at least; anything else is a ValueError.                                *)
int16(s) ==
    LET stripped == lower(StripSpaces(s))
        signed == Len(stripped) > 0 /\ stripped[1] \in {"+", "-"}
        unsigned == IF signed THEN Tail(stripped) ELSE stripped
        prefixed == /\ Len(unsigned) >= 2
                    /\ unsigned[1] = "0" /\ unsigned[2] = "x"
        digits == IF prefixed THEN SubSeq(unsigned, 3, Len(unsigned))
                  ELSE unsigned
    IN  IF Len(digits) = 0 \/ \E i \in 1..Len(digits) : ~IsHexDigit(digits[i])
        THEN Raise("ValueError")
        ELSE IF signed /\ stripped[1] = "-"
        THEN Return(0 - HexNumber(digits))
        ELSE Return(HexNumber(digits))

(* Color.__init__                                                          *)
Color(red, green, blue) == <<red, green, blue>>

(* Some of the entries of Color._color_keywords.                           *)
_color_keywords ==
    {<<<<"b", "l", "a", "c", "k">>, Color(0, 0, 0)>>,
     <<<<"b", "l", "u", "e">>, Color(0, 0, 255)>>,
     <<<<"g", "r", "a", "y">>, Color(128, 128, 128)>>,
     <<<<"l", "i", "m", "e">>, Color(0, 255, 0)>>,
     <<<<"r", "e", "d">>, Color(255, 0, 0)>>,
     <<<<"w", "h", "i", "t", "e">>, Color(255, 255, 255)>>}

IsKeyword(s) == \E entry \in _color_keywords : entry[1] = s

KeywordColor(s) == (CHOOSE entry \in _color_keywords : entry[1] = s)[2]

(* The three channels of a color: the first error among them, if any.      *)
Channels(red, green, blue) ==
    IF red.err # "none" THEN red
    ELSE IF green.err # "none" THEN green
    ELSE IF blue.err # "none" THEN blue
    ELSE Return(Color(red.val, green.val, blue.val))

(* int(color_str[i], 16) * 17                                              *)
ShortChannel(ch) ==
    LET digit == int16(<<ch>>)
    IN  IF digit.err # "none" THEN digit ELSE Return(digit.val * 17)

(* Color.parse                                                             *)
Color_parse(s) ==
    LET lower_color_str == lower(s)
    IN  IF lower_color_str = <<"n", "o", "n", "e">> THEN Return(None)
        ELSE IF IsKeyword(lower_color_str)
        THEN Return(KeywordColor(lower_color_str))
        ELSE IF Len(s) = 4 /\ s[1] = "#"
        THEN Channels(ShortChannel(s[2]), ShortChannel(s[3]),
                      ShortChannel(s[4]))
        ELSE IF Len(s) = 7 /\ s[1] = "#"
        THEN Channels(int16(SubSeq(s, 2, 3)), int16(SubSeq(s, 4, 5)),
                      int16(SubSeq(s, 6, 7)))
        ELSE Raise("ParseError")

(* A name in lower case, in upper case and capitalized.                    *)
Spellings(name) ==
    {name,
     [i \in 1..Len(name) |->
         UpperCase[CHOOSE k \in 1..26 : LowerCase[k] = name[i]]],
     [i \in 1..Len(name) |->
         IF i = 1 THEN UpperCase[CHOOSE k \in 1..26 : LowerCase[k] = name[i]]
         ELSE name[i]]}

ShortDigits == {"0", "8", "f", "A", "g", "-", " "}

LongDigits ==
    {<<"f", "f">>, <<"0", "0">>, <<"8", "0">>, <<"F", "a">>, <<"g", "0">>,
     <<"-", "f">>, <<"+", "a">>, <<"0", "x">>, <<" ", "1">>, <<"1", " ">>}

(* The color strings parsed: none and the keywords in three spellings, #   *)
(* with three characters and with three pairs of characters, hexadecimal   *)
(* or not, and strings of none of these forms.                             *)
ColorStrings ==
    UNION {Spellings(entry[1]) : entry \in _color_keywords}
    \cup Spellings(<<"n", "o", "n", "e">>)
    \cup {<<"#", a, b, c>> : a \in ShortDigits, b \in ShortDigits,
                             c \in ShortDigits}
    \cup {<<"#">> \o a \o b \o c : a \in LongDigits, b \in LongDigits,
                                   c \in LongDigits}
    \cup {<<>>, <<"#">>, <<"#", "f", "f">>, <<"f", "0", "0">>,
          <<"f", "f", "0", "0", "0", "0">>, <<"r", "e", "d", " ">>,
          <<"#", "f", "f", "0", "0", "0", "0", "0">>,
          <<"p", "i", "n", "k", "y">>}

InitColor ==
    /\ color_str \in ColorStrings
    /\ color = None
    /\ pc = "color"
    /\ error = "none"
    /\ PathIdle /\ MatrixIdle /\ AlgebraIdle /\ BoxIdle /\ ElementIdle
    /\ SceneIdle /\ HeapIdle

(* Color.parse(color_str)                                                  *)
ColorParse ==
    /\ pc = "color" /\ error = "none"
    /\ LET r == Color_parse(color_str)
       IN  IF r.err = "none"
           THEN color' = r.val /\ pc' = "color_parsed" /\ error' = error
           ELSE error' = r.err /\ UNCHANGED <<color, pc>>
    /\ UNCHANGED <<color_str, path_vars, matrix_vars, algebra_vars, box_vars,
                   element_vars, scene_vars, heap_vars>>

NextColor == ColorParse

SpecColor == InitColor /\ [][NextColor]_vars

(* The color string is # followed by n hexadecimal digits.                 *)
IsHexColor(s, n) ==
    /\ Len(s) = n + 1
    /\ s[1] = "#"
    /\ \A i \in 2..Len(s) : IsHexDigit(lower(s)[i])

(* C19: Color.parse is total over color tokens with three outcomes. The    *)
(* literal none in any case yields absent; a keyword in any case, #rgb or  *)
(* #rrggbb yields a Color of three integer channels in 0..255, each #rgb   *)
(* digit d yielding d * 17 and "#ff0000" and "red" both (255, 0, 0); every *)
(* other token, a # followed by 3 or 6 characters that are not all         *)
(* hexadecimal digits among them, fails with ParseError.                   *)
C19_ColorParseTotal ==
    LET l == lower(color_str)
        returned == pc = "color_parsed"
        raised == pc = "color" /\ error # "none"
    IN  pc \in {"color", "color_parsed"} /\ (returned \/ raised) =>
            IF l = <<"n", "o", "n", "e">>
            THEN returned /\ color = None
            ELSE IF IsKeyword(l) \/ IsHexColor(color_str, 3)
                    \/ IsHexColor(color_str, 6)
            THEN /\ returned
                 /\ Len(color) = 3
                 /\ \A i \in 1..3 : color[i] \in 0..255
                 /\ IsHexColor(color_str, 3) =>
                       \A i \in 1..3 :
                           color[i] = 17 * HexDigitValue(l[i + 1])
                 /\ (l = <<"r", "e", "d">>
                        \/ color_str = <<"#", "f", "f", "0", "0", "0", "0">>)
                       => color = Color(255, 0, 0)
            ELSE raised /\ error = "ParseError"

-----------------------------------------------------------------------------
(* The scene builder of the viewer: the fill and the stroke of an element, *)
(* resolved from its attributes. Attribute names and values are strings of *)
(* characters and a dict is a function from its keys.                      *)

(* str.split(sep) on characters.                                           *)
RECURSIVE SplitAt(_, _)
SplitAt(s, sep) ==
    IF \A i \in 1..Len(s) : s[i] # sep THEN <<s>>
    ELSE LET i == CHOOSE j \in 1..Len(s) :
                      /\ s[j] = sep
                      /\ \A k \in 1..(j - 1) : s[k] # sep
         IN  <<SubSeq(s, 1, i - 1)>> \o SplitAt(SubSeq(s, i + 1, Len(s)), sep)

EmptyDict == <<>>

(* dict(pairs): of the pairs of one key the last gives the value.          *)
dict(pairs) ==
    IF Len(pairs) = 0 THEN EmptyDict
    ELSE [k \in {pairs[i][1] : i \in 1..Len(pairs)} |->
             pairs[CHOOSE i \in 1..Len(pairs) :
                       /\ pairs[i][1] = k
                       /\ \A j \in (i + 1)..Len(pairs) : pairs[j][1] # k][2]]

(* dict.update                                                             *)
update(self, other) ==
    [k \in DOMAIN self \cup DOMAIN other |->
        IF k \in DOMAIN other THEN other[k] ELSE self[k]]

(* dict.get(key, default)                                                  *)
get(self, key, default) == IF key \in DOMAIN self THEN self[key] ELSE default

(* The dict without a key, as dict.pop leaves it.                          *)
Without(self, key) ==
    IF DOMAIN self \ {key} = {} THEN EmptyDict
    ELSE [k \in DOMAIN self \ {key} |-> self[k]]

IsNonEmpty(l) == Len(l) > 0

(* parse_style: the lines between semicolons that are not blank, each      *)
(* split at its colons into a key and a value; a line that does not split  *)
(* into two cannot be unpacked.                                            *)
parse_style(style_str) ==
    LET split_lines == SplitAt(style_str, ";")
        lines == SelectSeq([i \in 1..Len(split_lines) |->
                               StripSpaces(split_lines[i])], IsNonEmpty)
        pairs == [i \in 1..Len(lines) |-> SplitAt(lines[i], ":")]
    IN  IF \E i \in 1..Len(pairs) : Len(pairs[i]) # 2
        THEN Raise("ValueError")
        ELSE Return(dict([i \in 1..Len(pairs) |->
                             <<StripSpaces(pairs[i][1]),
                               StripSpaces(pairs[i][2])>>]))

StyleKey == <<"s", "t", "y", "l", "e">>

FillKey == <<"f", "i", "l", "l">>

StrokeKey == <<"s", "t", "r", "o", "k", "e">>

NoneText == <<"n", "o", "n", "e">>

(* The attributes load_shapes resolves the colors from: the direct         *)
(* attributes but style, updated with the keys of the style string.        *)
MergedAttributes(element_attributes) ==
    LET style == parse_style(get(element_attributes, StyleKey, <<>>))
    IN  IF style.err # "none" THEN style
        ELSE Return(update(Without(element_attributes, StyleKey), style.val))

(* The direct attributes an element may have: a fill, a stroke and a style *)
(* string, or none of the three.                                           *)
FillTexts ==
    {<<"r", "e", "d">>, <<"#", "0", "0", "f">>, NoneText}

StrokeTexts ==
    {<<"b", "l", "u", "e">>, <<"#", "g", "g", "g">>, NoneText}

ColonText == <<":">>

StyleTexts ==
    {<<>>,
     FillKey \o ColonText \o <<"b", "l", "u", "e">>,
     FillKey \o ColonText \o NoneText,
     FillKey \o <<":", " ">> \o <<"l", "i", "m", "e">> \o <<" ", ";">>
         \o StrokeKey \o ColonText \o <<"r", "e", "d">>,
     StrokeKey \o ColonText \o <<"#", "f", "f", "f">> \o <<";">>,
     <<" ">> \o StrokeKey \o <<" ", ":", " ">>
         \o <<"b", "l", "a", "c", "k">> \o <<" ">>,
     FillKey \o ColonText \o <<"b", "l", "u", "e">> \o <<";">>
         \o FillKey \o ColonText \o <<"w", "h", "i", "t", "e">>,
     StrokeKey \o ColonText \o <<"p", "i", "n", "k", "y">>,
     FillKey,
     FillKey \o ColonText \o <<"a">> \o ColonText \o <<"b">>}

Absent == {<<>>}

AttributeSets ==
    {dict(f \o s \o t) :
        f \in Absent \cup {<<<<FillKey, v>>>> : v \in FillTexts},
        s \in Absent \cup {<<<<StrokeKey, v>>>> : v \in StrokeTexts},
        t \in Absent \cup {<<<<StyleKey, v>>>> : v \in StyleTexts}}

InitScene ==
    /\ attributes \in AttributeSets
    /\ fill = None
    /\ stroke = None
    /\ pc = "scene"
    /\ error = "none"
    /\ PathIdle /\ MatrixIdle /\ AlgebraIdle /\ BoxIdle /\ ElementIdle
    /\ ColorIdle /\ HeapIdle

(* GameEngine.load_shapes on an element without shapes and children.       *)
LoadShapes ==
    /\ pc = "scene" /\ error = "none"
    /\ LET merged == MergedAttributes(attributes)
           fill_color ==
               Color_parse(get(merged.val, FillKey, NoneText))
           stroke_color ==
               Color_parse(get(merged.val, StrokeKey, NoneText))
       IN  IF merged.err # "none"
           THEN error' = merged.err /\ UNCHANGED <<fill, stroke, pc>>
           ELSE IF fill_color.err # "none"
           THEN error' = fill_color.err /\ UNCHANGED <<fill, stroke, pc>>
           ELSE IF stroke_color.err # "none"
           THEN error' = stroke_color.err /\ UNCHANGED <<fill, stroke, pc>>
           ELSE /\ fill' = fill_color.val
                /\ stroke' = stroke_color.val
                /\ pc' = "scene_loaded"
                /\ error' = error
    /\ UNCHANGED <<attributes, path_vars, matrix_vars, algebra_vars,
                   box_vars, element_vars, color_vars, heap_vars>>

NextScene == LoadShapes

SpecScene == InitScene /\ [][NextScene]_vars

(* The element has the direct attribute key and its style string has the   *)
(* key as well.                                                            *)
InBoth(key) ==
    /\ key \in DOMAIN attributes
    /\ StyleKey \in DOMAIN attributes
    /\ parse_style(attributes[StyleKey]).err = "none"
    /\ key \in DOMAIN parse_style(attributes[StyleKey]).val

(* C18: when the scene builder resolves an element's fill and stroke, the  *)
(* keys of the style attribute are merged in with lower precedence than    *)
(* the direct attributes. For an element with both a direct fill (or       *)
(* stroke) attribute and a fill (or stroke) key in its style string, the   *)
(* value of the direct attribute is the one used.                          *)
C18_DirectAttributeWins ==
    pc = "scene_loaded" =>
        /\ InBoth(FillKey) => fill = Color_parse(attributes[FillKey]).val
        /\ InBoth(StrokeKey) =>
              stroke = Color_parse(attributes[StrokeKey]).val

-----------------------------------------------------------------------------
(* The tokens of the path string as written: its letters and numbers.      *)
IsWrittenToken(lexeme) == lexeme.kind \in {"letter", "number"}

WrittenTokens == SelectSeq(path_str, IsWrittenToken)

(* Where the k-th command letter stands among the tokens.                  *)
LetterAt(tokens, k) ==
    CHOOSE i \in 1..Len(tokens) :
        /\ tokens[i].kind = "letter"
        /\ Cardinality({j \in 1..i : tokens[j].kind = "letter"}) = k

Tokenized == pc = "split"

(* C23: inside an elliptical-arc command (A or a) with any number of       *)
(* groups of 7 arguments, the tokenizer coerces by argument position       *)
(* i mod 7: the arguments at positions 0 and 1 become their absolute       *)
(* value, those at positions 3 and 4 their truth value, those at           *)
(* positions 2, 5 and 6 stay as written; the arguments of every other      *)
(* command letter stay as written.                                         *)
C23_ArcArgumentsCoercedByPosition ==
    Tokenized =>
        \A k \in 1..Len(commands) :
            LET at == LetterAt(WrittenTokens, k)
            IN  /\ commands[k][1] = WrittenTokens[at].ch
                /\ \A i \in 1..(Len(commands[k]) - 1) :
                      LET written == WrittenTokens[at + i].val
                          position == (i - 1) % 7
                          arg == commands[k][i + 1]
                      IN  IF commands[k][1] \in {"A", "a"}
                          THEN /\ position \in {0, 1} =>
                                     arg = IF written < 0 THEN 0 - written
                                           ELSE written
                               /\ position \in {3, 4} =>
                                     arg = IF written = 0 THEN 0 ELSE 1
                               /\ position \in {2, 5, 6} => arg = written
                          ELSE arg = written

(* An arc of two groups: the radius written -1 in the first group and -2   *)
(* in the second, and the flags written -2, 0 and 2, are coerced.          *)
C23_Witness ==
    /\ Tokenized
    /\ path_str = CommandText("A", 14)
    /\ path_str[3].val = -1 /\ commands[1][3] = 1
    /\ path_str[10].val = -2 /\ commands[1][10] = 2
    /\ path_str[5].val = -2 /\ commands[1][5] = 1
    /\ path_str[6].val = 0 /\ commands[1][6] = 0
    /\ path_str[12].val = 2 /\ commands[1][12] = 1
    /\ path_str[8].val = -1 /\ commands[1][8] = -1

-----------------------------------------------------------------------------
(* The endpoints of the commands of the parsed path that are no Closepath. *)
DrawnEndpoints ==
    UNION {{endpoint(subpaths[i][j]) : j \in 1..Len(subpaths[i])} :
              i \in 1..Len(subpaths)} \ {None}

ShapesReturned == pc = "shapes"

(* C24: every vertex of every basic shape returned by                      *)
(* Path.get_basic_shapes, for any Path that Path.parse returns, is a       *)
(* coordinate pair, the endpoint of a command that is no Closepath. No     *)
(* vertex is the absent endpoint of a Closepath, also when a Closepath is  *)
(* followed by further drawing commands without a Moveto between them, as  *)
(* in "M0 0 L1 1 Z L2 2" or "M0 0 L1 0 Z L1 1 Z".                          *)
C24_NoAbsentVertex ==
    ShapesReturned =>
        \A i \in 1..Len(shapes) :
            \A j \in 1..Len(shapes[i].points) :
                /\ shapes[i].points[j] # None
                /\ shapes[i].points[j] \in DrawnEndpoints

-----------------------------------------------------------------------------
(* Objects. The heap is the sequence of the objects and lists created so   *)
(* far and a reference is an index into it. A shape object is the record   *)
(* of its attributes. The points of a Polyline or a Polygon are a list of  *)
(* their own on the heap, which the object refers to; so are the commands  *)
(* of a Subpath and the subpaths of a Path, lists of references to Command *)
(* and Subpath objects. A Matrix object holds the tuple abcdef.            *)

List(items) == [type |-> "list", items |-> items]

MatrixObject(m) == [type |-> "Matrix", abcdef |-> m]

CommandObject(command) == [type |-> "Command", command |-> command]

(* Subpath and Path as values: the command tuples of the one, the          *)
(* subpaths of the other, each the sequence of its command tuples.         *)
Subpath(command_tuples) == [type |-> "Subpath", commands |-> command_tuples]

Path(subpath_values) == [type |-> "Path", subpaths |-> subpath_values]

HasPointList(object) == object.type \in {"Polyline", "Polygon"}

(* The list an object refers to.                                           *)
ListOf(object) ==
    CASE HasPointList(object) -> object.points
      [] object.type = "Subpath" -> object.commands
      [] object.type = "Path" -> object.subpaths

(* The value an object is, its lists read through the references.          *)
RECURSIVE Deref(_, _)
Deref(h, ref) ==
    CASE HasPointList(h[ref]) ->
            [h[ref] EXCEPT !.points = h[h[ref].points].items]
      [] h[ref].type = "Subpath" ->
            LET items == h[h[ref].commands].items
            IN  Subpath([i \in 1..Len(items) |-> h[items[i]].command])
      [] h[ref].type = "Path" ->
            LET items == h[h[ref].subpaths].items
            IN  Path([i \in 1..Len(items) |-> Deref(h, items[i]).commands])
      [] OTHER -> h[ref]

(* Subpath.__init__ on the Command objects its caller has just built: the  *)
(* heap with the commands, the new list of them and the Subpath, which is  *)
(* the last.                                                               *)
NewSubpath(h, command_tuples) ==
    LET n == Len(command_tuples)
        h1 == h \o [i \in 1..n |-> CommandObject(command_tuples[i])]
        h2 == Append(h1, List([i \in 1..n |-> Len(h) + i]))
    IN  Append(h2, [type |-> "Subpath", commands |-> Len(h2)])

(* The Subpath objects of a Path, built one after the other: the heap with *)
(* them and the references to them.                                        *)
RECURSIVE NewSubpaths(_, _, _)
NewSubpaths(h, subpath_values, refs) ==
    IF Len(subpath_values) = 0 THEN [heap |-> h, refs |-> refs]
    ELSE TheOne({NewSubpaths(h1, Tail(subpath_values),
                             Append(refs, Len(h1))) :
                    h1 \in {NewSubpath(h, Head(subpath_values))}})

(* A constructor call: the heap with the new object, which is the last.    *)
(* Polyline.__init__, Polygon.__init__, Subpath.__init__ and Path.__init__ *)
(* make a new list of what they are given.                                 *)
New(h, object) ==
    CASE HasPointList(object) ->
            Append(Append(h, List(object.points)),
                   [object EXCEPT !.points = Len(h) + 1])
      [] object.type = "Subpath" -> NewSubpath(h, object.commands)
      [] object.type = "Path" ->
            LET built == NewSubpaths(h, object.subpaths, <<>>)
                h1 == Append(built.heap, List(built.refs))
            IN  Append(h1, [type |-> "Path", subpaths |-> Len(h1)])
      [] OTHER -> Append(h, object)

(* Command.control_points: the arguments in pairs; EllipticalArc has the   *)
(* endpoint alone, Closepath none.                                         *)
control_points(command) ==
    IF command[1] = "A" THEN <<endpoint(command)>>
    ELSE [i \in 1..((Len(command) - 1) \div 2) |->
             <<command[2 * i], command[2 * i + 1]>>]

(* Command.transform and EllipticalArc.transform: a new command of the     *)
(* same class from the transformed control points; the arc keeps its       *)
(* radii, rotation and flags.                                              *)
Command_transform(command, m) ==
    LET transformed ==
            [i \in 1..Len(control_points(command)) |->
                transform_point(m, control_points(command)[i][1],
                                control_points(command)[i][2])]
    IN  IF command[1] = "A"
        THEN SubSeq(command, 1, 6) \o transformed[1]
        ELSE <<command[1]>>
             \o [k \in 1..(2 * Len(transformed)) |->
                    transformed[(k + 1) \div 2][2 - (k % 2)]]

(* Subpath.transform                                                       *)
Subpath_transform(command_tuples, m) ==
    [i \in 1..Len(command_tuples) |-> Command_transform(command_tuples[i], m)]

(* Path.transform                                                          *)
Path_transform(subpath_values, m) ==
    [i \in 1..Len(subpath_values) |-> Subpath_transform(subpath_values[i], m)]

(* The area property of each class; Circle and Rect inherit Shape.area,    *)
(* which raises NotImplementedError.                                       *)
area(shape) ==
    CASE shape.type \in {"Line", "Polyline"} -> Return(0)
      [] shape.type = "Polygon" -> Polygon_area(shape.points)
      [] shape.type \in {"Circle", "Rect"} -> Raise("NotImplementedError")

(* The centroid property of each class; Polyline and Polygon inherit       *)
(* Shape.centroid, which raises NotImplementedError. The halves are exact  *)
(* on the even sums of the model's shapes.                                 *)
centroid(shape) ==
    CASE shape.type = "Line" ->
            Return(<<(shape.points[1][1] + shape.points[2][1]) \div 2,
                     (shape.points[1][2] + shape.points[2][2]) \div 2>>)
      [] shape.type \in {"Polyline", "Polygon"} ->
            Raise("NotImplementedError")
      [] shape.type = "Circle" -> Return(shape.points[1])
      [] shape.type = "Rect" ->
            Return(<<shape.points[1][1] + shape.width \div 2,
                     shape.points[1][2] + shape.height \div 2>>)

(* The bounding_box property on the heap: BoundingBox.bounding_box returns *)
(* self, every other class a new BoundingBox.                              *)
BoundingBoxOf(h, ref) ==
    IF h[ref].type = "BoundingBox"
    THEN [heap |-> h, result |-> Return(ref)]
    ELSE LET r == bounding_box(Deref(h, ref))
         IN  IF r.err # "none" THEN [heap |-> h, result |-> r]
             ELSE [heap |-> New(h, BoxShape(r.val)),
                   result |-> Return(Len(h) + 1)]

(* shape.transform(matrix) on the heap: the shape it returns is built by   *)
(* the constructor of the class, from commands and subpaths that           *)
(* Command.transform and Subpath.transform have built.                     *)
Transformed(h, ref, m) ==
    LET shape == Deref(h, ref)
        r == CASE shape.type = "Subpath" ->
                     Return(Subpath(Subpath_transform(shape.commands,
                                                      h[m].abcdef)))
               [] shape.type = "Path" ->
                     Return(Path(Path_transform(shape.subpaths,
                                                h[m].abcdef)))
               [] OTHER -> transform(shape, h[m].abcdef)
    IN  IF r.err # "none" THEN [heap |-> h, result |-> r]
        ELSE LET h1 == New(h, r.val)
             IN  [heap |-> h1, result |-> Return(Len(h1))]

(* Matrix.__mul__ on the heap: Matrix(a3, b3, c3, d3, e3, f3).             *)
Multiplied(h, self, other) ==
    [heap |-> New(h, MatrixObject(Mul(h[self].abcdef, h[other].abcdef))),
     result |-> Return(Len(h) + 1)]

(* Polygon.repair on the heap: pop and reverse change the list in place.   *)
Repaired(h, ref) ==
    LET r == Polygon_repair(h[h[ref].points].items, DefaultEpsilon)
    IN  [heap |-> [h EXCEPT ![h[ref].points].items = r.points],
         result |-> IF r.err = "none" THEN Return(None) ELSE Raise(r.err)]

(* BoundingBox.add_point on the heap: the four attributes are assigned.    *)
PointAdded(h, ref, p) ==
    [heap |-> [h EXCEPT ![ref].box = add_point(h[ref].box, p[1], p[2],
                                               None).val],
     result |-> Return(None)]

-----------------------------------------------------------------------------
(* A shape and a matrix are constructed; then the methods and properties   *)
(* of the objects on the heap are called, on the results of earlier calls  *)
(* too.                                                                    *)

(* One shape of every class with sums of coordinates that are even, a      *)
(* polygon that repair changes among them, two bounding boxes, a subpath   *)
(* with a curve and an arc, and a path of two subpaths.                    *)
HeapShapes ==
    {Line(0, 0, 4, -2),
     Polyline(<<<<0, 0>>, <<2, 2>>, <<4, 0>>>>),
     Polygon(<<<<0, 0>>, <<10, 0>>, <<10, 10>>>>),
     Polygon(<<<<0, 0>>, <<10, 10>>, <<10, 0>>, <<0, 0>>>>),
     Circle(1, 1, 2),
     Rect(0, 0, 4, 2, 1, 1),
     BoxShape(EmptyBoundingBox),
     BoxShape(BoundingBox(Finite(-5), Finite(-6), Finite(-4), Finite(-3))),
     Subpath(<<<<"M", 0, 0>>, <<"C", 1, 2, 3, 4, 5, 6>>,
               <<"A", 2, 3, 30, 0, 1, 7, 8>>, <<"Z">>>>),
     Path(<<<<<<"M", 0, 0>>, <<"L", 4, -2>>>>,
            <<<<"M", 1, 1>>, <<"L", 3, 5>>, <<"Z">>>>>>)}

HeapMatrices ==
    {create_translate(<<10, 5>>), create_scale(<<2>>), create_rotate(<<90>>)}

HeapPoints == {<<0, 0>>, <<3, -2>>}

(* The calls that return an object which a run makes.                      *)
MaxReturned == 2

ShapeTypes == {"Line", "Polyline", "Polygon", "Circle", "Rect", "BoundingBox"}

PathTypes == {"Subpath", "Path"}

Refs(h, types) == {ref \in 1..Len(h) : h[ref].type \in types}

CallOf(op, self, arg) == [op |-> op, self |-> self, arg |-> arg]

InitHeap ==
    /\ \E shape \in HeapShapes, m \in HeapMatrices :
          heap = New(New(<<>>, shape), MatrixObject(m))
    /\ call = CallOf("none", 0, 0)
    /\ result = Return(None)
    /\ heap_before = <<>>
    /\ derived = {}
    /\ pc = "objects"
    /\ error = "none"
    /\ PathIdle /\ MatrixIdle /\ AlgebraIdle /\ BoxIdle /\ ElementIdle
    /\ SceneIdle /\ ColorIdle

(* What every call does to the state: r is the heap it leaves and what it  *)
(* returned or raised; a call that returns an object is kept in derived.   *)
Called(op, self, arg, r, returns_object) ==
    /\ heap' = r.heap
    /\ call' = CallOf(op, self, arg)
    /\ result' = r.result
    /\ heap_before' = heap
    /\ derived' = IF returns_object /\ r.result.err = "none"
                  THEN derived \cup {<<self, r.result.val>>}
                  ELSE derived
    /\ error' = r.result.err
    /\ pc' = "called"
    /\ UNCHANGED <<path_vars, matrix_vars, algebra_vars, box_vars,
                   element_vars, scene_vars, color_vars>>

CanCall == pc \in {"objects", "called"} /\ error = "none"

(* shape.transform(matrix)                                                 *)
CallTransform ==
    /\ CanCall /\ Cardinality(derived) < MaxReturned
    /\ \E self \in Refs(heap, ShapeTypes \cup PathTypes),
          m \in Refs(heap, {"Matrix"}) :
          Called("transform", self, m, Transformed(heap, self, m), TRUE)

(* matrix * other                                                          *)
CallMul ==
    /\ CanCall /\ Cardinality(derived) < MaxReturned
    /\ \E self \in Refs(heap, {"Matrix"}), other \in Refs(heap, {"Matrix"}) :
          Called("__mul__", self, other, Multiplied(heap, self, other), TRUE)

(* shape.bounding_box                                                      *)
CallBoundingBox ==
    /\ CanCall /\ Cardinality(derived) < MaxReturned
    /\ \E self \in Refs(heap, ShapeTypes) :
          Called("bounding_box", self, 0, BoundingBoxOf(heap, self), TRUE)

(* shape.area                                                              *)
CallArea ==
    /\ CanCall
    /\ \E self \in Refs(heap, ShapeTypes \ {"BoundingBox"}) :
          Called("area", self, 0,
                 [heap |-> heap, result |-> area(Deref(heap, self))], FALSE)

(* shape.centroid                                                          *)
CallCentroid ==
    /\ CanCall
    /\ \E self \in Refs(heap, ShapeTypes \ {"BoundingBox"}) :
          Called("centroid", self, 0,
                 [heap |-> heap, result |-> centroid(Deref(heap, self))],
                 FALSE)

(* polygon.repair()                                                        *)
CallRepair ==
    /\ CanCall
    /\ \E self \in Refs(heap, {"Polygon"}) :
          Called("repair", self, 0, Repaired(heap, self), FALSE)

(* bounding_box.add_point(x, y)                                            *)
CallAddPoint ==
    /\ CanCall
    /\ \E self \in Refs(heap, {"BoundingBox"}), p \in HeapPoints :
          Called("add_point", self, p, PointAdded(heap, self, p), FALSE)

NextHeap ==
    \/ CallTransform
    \/ CallMul
    \/ CallBoundingBox
    \/ CallArea
    \/ CallCentroid
    \/ CallRepair
    \/ CallAddPoint

SpecHeap == InitHeap /\ [][NextHeap]_vars

(* The class of the object the call made last was made on.                 *)
ReceiverType == heap_before[call.self].type

(* C21: every shape variant that can appear in the scene (Line, Polyline,  *)
(* Polygon, Circle, rounded Rect) supports all four operations, the        *)
(* bounding-box query, the area query, the centroid query and              *)
(* apply-transform returning a new shape of the same variant, without      *)
(* failing; the area is zero for Line and Polyline and the signed shoelace *)
(* value for Polygon.                                                      *)
C21_EveryVariantSupportsFourOperations ==
    (/\ pc = "called"
     /\ call.op \in {"bounding_box", "area", "centroid", "transform"}
     /\ ReceiverType \in {"Line", "Polyline", "Polygon", "Circle", "Rect"})
        => /\ result.err = "none"
           /\ call.op = "transform" =>
                 /\ result.val \notin 1..Len(heap_before)
                 /\ heap[result.val].type = ReceiverType
           /\ call.op = "bounding_box" =>
                 heap[result.val].type = "BoundingBox"
           /\ (call.op = "area" /\ ReceiverType \in {"Line", "Polyline"}) =>
                 result.val = 0
           /\ (call.op = "area" /\ ReceiverType = "Polygon") =>
                 LET points == Deref(heap_before, call.self).points
                 IN  2 * result.val = TwiceArea(points, Len(points))

(* The mutable state of an object: the object itself, its list if it has  *)
(* one, and for a Subpath or a Path what the objects in the list reach.    *)
RECURSIVE Reach(_, _)
Reach(h, ref) ==
    CASE HasPointList(h[ref]) -> {ref, h[ref].points}
      [] h[ref].type \in PathTypes ->
            {ref, ListOf(h[ref])}
            \cup UNION {Reach(h, h[ListOf(h[ref])].items[i]) :
                           i \in 1..Len(h[ListOf(h[ref])].items)}
      [] OTHER -> {ref}

(* C22: transform and shape operations are pure with no aliasing. A        *)
(* Matrix multiplication, a shape's transform and a shape's query leave    *)
(* the matrix and the original shape unchanged; the object one of them     *)
(* returns is new and shares no mutable state with the original; a later   *)
(* change in place to one of the two, by Polygon.repair or                 *)
(* BoundingBox.add_point, is never visible through the other.              *)
C22_PureWithNoAliasing ==
    pc = "called" =>
        /\ call.op \in {"transform", "__mul__", "bounding_box", "area",
                        "centroid"} =>
              \A ref \in 1..Len(heap_before) : heap[ref] = heap_before[ref]
        /\ (/\ call.op \in {"transform", "__mul__", "bounding_box"}
            /\ result.err = "none") =>
              /\ result.val \notin 1..Len(heap_before)
              /\ Reach(heap, result.val) \cap Reach(heap, call.self) = {}
        /\ call.op \in {"repair", "add_point"} =>
              \A pair \in derived :
                  /\ call.self = pair[2] =>
                        Deref(heap, pair[1]) = Deref(heap_before, pair[1])
                  /\ call.self = pair[1] =>
                        Deref(heap, pair[2]) = Deref(heap_before, pair[2])

====
